---------------------------- MODULE Spec2Model ----------------------------
(***************************************************************************)
(* A model of the game engine (src/src/engine/engine.py), its deck         *)
(* (deck.py), the parser of the trainer's answers                          *)
(* (external_agent_response_parser.py) and the registry that runs engines  *)
(* as asyncio tasks over a pair of queues (engine_api.py).                 *)
(*                                                                         *)
(* One value of inst[i] is one call of EngineAPI.create: the Engine        *)
(* object, the two queues made for it, and the position and the locals of  *)
(* the task running _run_engine / Engine.run.  A step of the task runs     *)
(* from one suspension (an await that really waits: input_queue.get() or   *)
(* an opponent's generate_response) to the next one, as asyncio runs it.   *)
(*                                                                         *)
(* Randomness: random.shuffle / random.sample / random.choice are          *)
(* nondeterministic choices.  The order random.shuffle gives a pile of     *)
(* cards cannot be observed before a card is popped, so a pile is kept as  *)
(* the number of cards of each kind in it and pop() takes any card the     *)
(* pile holds.                                                             *)
(***************************************************************************)
EXTENDS Integers, Sequences, FiniteSets, TLC

VARIABLES
    inst,      \* instance -> the engine, its queues and its task
    games,     \* EngineAPI.games:   game_id -> instance owning the registered queues, or None
    engines,   \* EngineAPI.engines: game_id -> instance, or None
    tasks,     \* EngineAPI.tasks:   game_id -> instance, or None
    caller     \* game_id -> the external caller (the rollout loop) of that game

vars == <<inst, games, engines, tasks, caller>>

(***************************************************************************)
(* Values                                                                  *)
(***************************************************************************)
None == 0 - 1

Instances == {1, 2}
GameIds == {"g1", "g2"}

\* ROLES of engine.py: one role per agent slot
ROLES == <<"MASTER_IMPOSTOR", "IMPOSTOR", "CREWMATE", "CREWMATE", "CREWMATE">>

\* agent_ids = [f"agent_{i}" for i in range(len(ai_models))]: agent_i is i
AgentIds == 0 .. (Len(ROLES) - 1)

\* an id that names no agent of the game
UnknownAgentIds == {Len(ROLES) + 4}

SABOTAGE == "SABOTAGE"
SECURITY == "SECURITY"

\* tool_map of ExternalAgentResponseParser._hydrate_tool
ToolNames == {"president-pick-chancellor", "vote-chancellor-yes-no",
              "president-choose-card-to-discard", "chancellor-play-policy",
              "choose-agent-to-vote-out", "ask-agent-if-wants-to-speak",
              "agent-response-to-question-tool"}

\* the fields each tool class of models.py requires
RequiredKeys(tool_name) ==
    CASE tool_name = "president-pick-chancellor" -> {"agent_id"}
      [] tool_name = "vote-chancellor-yes-no" -> {"choice"}
      [] tool_name = "president-choose-card-to-discard" -> {"card_index"}
      [] tool_name = "chancellor-play-policy" -> {"card_index"}
      [] tool_name = "choose-agent-to-vote-out" -> {"agent_id"}
      [] tool_name = "ask-agent-if-wants-to-speak" ->
             {"question_or_statement", "ask_directed_question_to_agent_id"}
      [] tool_name = "agent-response-to-question-tool" -> {"response"}
      [] OTHER -> {}

\* the "required" list of each tool's schema in tools.py
SortedKeys(tool_name) ==
    CASE tool_name = "president-pick-chancellor" -> <<"agent_id">>
      [] tool_name = "vote-chancellor-yes-no" -> <<"choice">>
      [] tool_name = "president-choose-card-to-discard" -> <<"card_index">>
      [] tool_name = "chancellor-play-policy" -> <<"card_index">>
      [] tool_name = "choose-agent-to-vote-out" -> <<"agent_id">>
      [] tool_name = "ask-agent-if-wants-to-speak" ->
             <<"question_or_statement", "ask_directed_question_to_agent_id">>
      [] tool_name = "agent-response-to-question-tool" -> <<"response">>
      [] OTHER -> <<>>

(***************************************************************************)
(* Sequences helpers                                                       *)
(***************************************************************************)
Range(s) == {s[k] : k \in 1 .. Len(s)}

\* s without its element at position k (1-based)
RemoveAt(s, k) == [j \in 1 .. (Len(s) - 1) |-> IF j < k THEN s[j] ELSE s[j + 1]]

\* all orders of the elements of the set S
Perms(S) == {p \in [1 .. Cardinality(S) -> S] : \A a \in S : \E k \in DOMAIN p : p[k] = a}

\* the elements of the set of integers S in increasing order
RECURSIVE SortedSeq(_)
SortedSeq(S) ==
    IF S = {} THEN <<>>
    ELSE LET lo == CHOOSE x \in S : \A y \in S : x <= y
         IN <<lo>> \o SortedSeq(S \ {lo})

\* the subsequence of s of the elements satisfying Keep
RECURSIVE SelectIds(_, _)
SelectIds(s, keep) ==
    IF s = <<>> THEN <<>>
    ELSE (IF Head(s) \in keep THEN <<Head(s)>> ELSE <<>>) \o SelectIds(Tail(s), keep)


(***************************************************************************)
(* Deck (deck.py).  A pile is [sab |-> n, sec |-> n].                      *)
(***************************************************************************)
EmptyPile == [sab |-> 0, sec |-> 0]

PileSize(p) == p.sab + p.sec

\* Deck.__init__ / _initialize_deck: total_sabotage and total_security cards, shuffled
NewDeck(total_sabotage, total_security) ==
    [cards |-> [sab |-> total_sabotage, sec |-> total_security],
     discard_pile |-> EmptyPile]

\* Deck.cards_remaining
CardsRemaining(d) == PileSize(d.cards)

\* a variant of add_to_discard that drops the card
AddToDiscard_CardLost(d, card) == d

\* Deck.add_to_discard
AddToDiscard(d, card) ==
    [d EXCEPT !.discard_pile =
        IF card = SABOTAGE THEN [@ EXCEPT !.sab = @ + 1] ELSE [@ EXCEPT !.sec = @ + 1]]

\* Deck._reshuffle_discard: the discard pile becomes the draw pile, shuffled
ReshuffleDiscard(d) == [cards |-> d.discard_pile, discard_pile |-> EmptyPile]

\* self.cards.pop(): the cards the shuffled pile can have on top
PopChoices(d) ==
    (IF d.cards.sab > 0
        THEN {[card |-> SABOTAGE, deck |-> [d EXCEPT !.cards.sab = @ - 1]]} ELSE {})
    \cup
    (IF d.cards.sec > 0
        THEN {[card |-> SECURITY, deck |-> [d EXCEPT !.cards.sec = @ - 1]]} ELSE {})

\* Deck.draw(count): every outcome [ok, drawn, deck]; ok = FALSE is the ValueError of
\* _reshuffle_discard, raised with the cards popped so far already out of the pile
RECURSIVE Draw(_, _)
Draw(d, count) ==
    IF count = 0 THEN {[ok |-> TRUE, drawn |-> <<>>, deck |-> d]}
    ELSE IF PileSize(d.cards) = 0 /\ PileSize(d.discard_pile) = 0
         THEN {[ok |-> FALSE, drawn |-> <<>>, deck |-> d]}
    ELSE LET d1 == IF PileSize(d.cards) = 0 THEN ReshuffleDiscard(d) ELSE d
         IN UNION {{[ok |-> r.ok, drawn |-> <<p.card>> \o r.drawn, deck |-> r.deck] :
                        r \in Draw(p.deck, count - 1)} : p \in PopChoices(d1)}

(***************************************************************************)
(* Events (models.py) and the tools deciders answer with.                  *)
(***************************************************************************)
NoCards == <<>>

Event(type, counter, agent_id, other_id, vote, cards, card) ==
    [type |-> type, event_order_counter |-> counter, agent_id |-> agent_id,
     other_id |-> other_id, vote |-> vote, cards |-> cards, card |-> card]

PrivateEventTypes == {"PresidentChooseCardToDiscardEventPrivate",
                      "ChancellorReceivePoliciesEventPrivate"}

\* a hydrated tool: tool_type says which class of models.py it is, and with it which
\* of the other fields the object has
Tool(tool_type, agent_id, choice, card_index, q, target, response) ==
    [tool_type |-> tool_type, agent_id |-> agent_id, choice |-> choice,
     card_index |-> card_index, question_or_statement |-> q,
     ask_directed_question_to_agent_id |-> target, response |-> response]

NoTool == Tool("none", None, FALSE, 0, "None", None, "")

\* getattr on a hydrated tool raises AttributeError for a field its class lacks
HasAttr(tool, field) == field \in RequiredKeys(tool.tool_type)

\* Python truth of question_or_statement (str | None): None and "" are false
Truthy(q) == q \notin {"None", ""}

(***************************************************************************)
(* Tool schemas (tools.py, protocol.py)                                    *)
(***************************************************************************)
\* generate_tools(allowed_tools, eligible_agent_ids)[0]: the values the schema's enum
\* permits for the tool's agent-id or index parameter (None: no enum)
SchemaEnum(tool_name, eligible_agent_ids) ==
    CASE tool_name = "president-pick-chancellor" -> eligible_agent_ids
      [] tool_name = "president-choose-card-to-discard" -> {0, 1, 2}
      [] tool_name = "chancellor-play-policy" -> {0, 1}
      [] tool_name = "choose-agent-to-vote-out" -> eligible_agent_ids \cup {None}
      [] tool_name = "ask-agent-if-wants-to-speak" -> eligible_agent_ids \cup {None}
      [] OTHER -> {}

\* add_reasoning_to_tool_schema: "reasoning" is inserted first in the required list
AddReasoningToToolSchema(schema) ==
    [schema EXCEPT !.required =
        IF "reasoning" \in Range(@) THEN @ ELSE <<"reasoning">> \o @]

GenerateTool(tool_name, eligible_agent_ids) ==
    [name |-> tool_name,
     required |-> SortedKeys(tool_name),
     enum |-> SchemaEnum(tool_name, eligible_agent_ids)]

\* ToolCallTarget(name=tool_name, openai_schema=tool_schema)
ToolCallTarget(tool_name, eligible_agent_ids) ==
    [name |-> tool_name,
     openai_schema |-> AddReasoningToToolSchema(GenerateTool(tool_name, eligible_agent_ids))]

NoToolCall == [name |-> "None", openai_schema |-> [name |-> "None", required |-> <<>>, enum |-> {}]]

(***************************************************************************)
(* Message histories (models.py) and what goes over the queues             *)
(* (protocol.py)                                                           *)
(***************************************************************************)
NoEvent == Event("none", None, None, None, FALSE, NoCards, "")

\* UserInput(history_type="user-input", user_message=...): the message is the system
\* prompt, str(event) of one event, or the game state with the action prompt.  The
\* event is kept whole (str(event) drops its counter) so that what was folded into a
\* history can be told from the history.
UserInput(kind, event, guidance, cards) ==
    [history_type |-> "user-input", kind |-> kind, event |-> event,
     guidance |-> guidance, cards |-> cards]

SystemPrompt == UserInput("system", NoEvent, "", NoCards)

\* AssistantResponse(tool_calls=[tool_call], hydrated_tool_calls=[hydrated_tool])
AssistantResponse(tool) ==
    [history_type |-> "assistant-response", tool_calls |-> <<tool.tool_type>>,
     hydrated_tool_calls |-> <<tool>>]

\* ToolFeedback with one ToolResult(output="OK") per tool call of the response
ToolFeedback(response) ==
    [history_type |-> "tool-feedback",
     tool_call_results |-> [k \in DOMAIN response.tool_calls |->
                               [tool_name |-> response.tool_calls[k], output |-> "OK"]]]

\* BaseAgent._convert_history_item: the OpenAI messages of one history item
ConvertHistoryItem(item) ==
    CASE item.history_type = "user-input" -> <<[role |-> "user", content |-> item]>>
      [] item.history_type = "tool-feedback" ->
             [k \in DOMAIN item.tool_call_results |->
                 [role |-> "tool", content |-> item.tool_call_results[k]]]
      [] item.history_type = "assistant-response" ->
             <<[role |-> "assistant", content |-> item.hydrated_tool_calls]>>

\* BaseAgent._convert_message_history
RECURSIVE ConvertMessageHistory(_)
ConvertMessageHistory(message_history) ==
    IF message_history = <<>> THEN <<>>
    ELSE ConvertHistoryItem(Head(message_history))
         \o ConvertMessageHistory(Tail(message_history))

TerminalState(game_id, reward, winners, winning_team, trainable_agent_id) ==
    [none |-> FALSE, game_id |-> game_id, reward |-> reward, winners |-> winners,
     winning_team |-> winning_team, trainable_agent_id |-> trainable_agent_id]

NoTerminalState ==
    [none |-> TRUE, game_id |-> "", reward |-> 0, winners |-> <<>>,
     winning_team |-> "None", trainable_agent_id |-> None]

ModelInput(messages, tool_call, terminal_state) ==
    [kind |-> "ModelInput", messages |-> messages, tool_call |-> tool_call,
     terminal_state |-> terminal_state]

\* the str that _run_engine puts on the output queue in "except Exception"
EngineErrorString ==
    [kind |-> "str", messages |-> <<>>, tool_call |-> NoToolCall,
     terminal_state |-> NoTerminalState]

\* ModelOutput(function_calling_json=...): whether the string is JSON, the
\* "tool_name" of the object ("" when it has none) and its "arguments"
ModelOutput(well_formed, tool_name, keys, arguments) ==
    [well_formed |-> well_formed, tool_name |-> tool_name, keys |-> keys,
     arguments |-> arguments]

(***************************************************************************)
(* ExternalAgentResponseParser                                             *)
(***************************************************************************)
\* _hydrate_tool: the tool class of tool_name built from the arguments; fails for a
\* name that is not in tool_map and for arguments that lack a field of the class
HydrateTool(tool_name, keys, arguments) ==
    IF tool_name \notin ToolNames \/ ~(RequiredKeys(tool_name) \subseteq keys)
    THEN [ok |-> FALSE, tool |-> NoTool]
    ELSE [ok |-> TRUE, tool |-> [arguments EXCEPT !.tool_type = tool_name]]

\* parse: [ok, response]; ok = FALSE is the ValueError it raises
Parse(model_output) ==
    IF ~model_output.well_formed THEN [ok |-> FALSE, response |-> AssistantResponse(NoTool)]
    ELSE IF model_output.tool_name = "" THEN [ok |-> FALSE, response |-> AssistantResponse(NoTool)]
    ELSE LET h == HydrateTool(model_output.tool_name, model_output.keys,
                              model_output.arguments)
         IN [ok |-> h.ok, response |-> AssistantResponse(h.tool)]

(***************************************************************************)
(* Engine (engine.py): construction                                        *)
(***************************************************************************)
\* no call of Deck.draw is running
NoDrawCall ==
    [status |-> "none", count |-> 0, left |-> 0, drawn_cards |-> <<>>,
     before |-> NewDeck(0, 0), drawn_before_reshuffle |-> None]

\* the instance before EngineAPI.create has made it
FreshInstance ==
    [pc |-> "none", exit_kind |-> "", game_id |-> "",
     \* Engine
     deck |-> NewDeck(0, 0),
     \* a call of Deck.draw seen statement by statement: its count, the iterations
     \* left, its local drawn_cards, the deck at the call, and how many cards were
     \* already drawn when _reshuffle_discard ran
     draw_call |-> NoDrawCall,
     \* the generator of module random of the process the engine lives in: the value
     \* given to random.seed, the generator's state, and the number of draws other
     \* games of the process have made; Deck.cards in the order the shuffle gave
     seed |-> 0, random_state |-> 0, other_draws |-> 0, card_order |-> <<>>,
     sabotage_track_target |-> 0, security_track_target |-> 0, promotion_threshold |-> 0,
     role |-> [a \in AgentIds |-> "CREWMATE"], policy_agent_id |-> None,
     president_rotation |-> <<>>, current_president_idx |-> 0,
     current_chancellor_id |-> None,
     sabotage_progress |-> 0, security_progress |-> 0, failed_election_tracker |-> 0,
     event_counter |-> 0, public_events |-> <<>>,
     private_events_by_agent |-> [a \in AgentIds |-> <<>>],
     last_seen_event_counter |-> [a \in AgentIds |-> None],
     msg_history |-> [a \in AgentIds |-> <<>>],
     \* the queues made by create
     input_queue |-> <<>>, output_queue |-> <<>>,
     \* locals of run, _discourse and _vote
     chancellor_id |-> None, cards_with_ids |-> NoCards,
     awaiting |-> None, req |-> NoToolCall,
     pending |-> {}, ai_tools |-> [a \in AgentIds |-> NoTool],
     disc_no |-> 0, speakers |-> <<>>, cur_speaker |-> None,
     \* history variables: everything ever put on the output queue, the number of
     \* ModelOutputs taken from the input queue, rounds started, cards ever put in the
     \* deck, whether a generate_response of an opponent has raised
     out_log |-> <<>>, n_got |-> 0, round |-> 0, initial_count |-> 0,
     opponent_failed |-> FALSE,
     \* history variable: the requests sent to the trainer with the tool that came back
     \* for each and whether the code after the await raised on it
     decisions |-> <<>>,
     \* history variable: sabotage_progress when current_chancellor_id was last set
     seated_at_sabotage |-> None]

\* a variant of ForcedRoleLists without "remaining_roles.remove(trainable_role)"
ForcedRoleLists_RoleNotRemoved(trainable_idx) ==
    {[i \in AgentIds |->
         IF i = trainable_idx THEN ROLES[t]
         ELSE LET remaining_roles == ROLES
                  remaining_idx == Cardinality({j \in AgentIds : j < i /\ j # trainable_idx})
              IN remaining_roles[p[remaining_idx + 1]]] :
        t \in {1, 2}, p \in Perms(1 .. (Len(ROLES) - 1))}

\* the role lists __init__ can build (lines 100-122): with a trainable slot the branch
\* that forces it onto the Impostor team, or random.sample(ROLES, len(ROLES))
ForcedRoleLists(trainable_idx) ==
    {[i \in AgentIds |->
         IF i = trainable_idx THEN ROLES[t]
         ELSE LET remaining_roles == RemoveAt(ROLES, t)
                  remaining_idx == Cardinality({j \in AgentIds : j < i /\ j # trainable_idx})
              IN remaining_roles[p[remaining_idx + 1]]] :
        t \in {1, 2}, p \in Perms(1 .. (Len(ROLES) - 1))}

UniformRoleLists == {[i \in AgentIds |-> ROLES[p[i + 1]]] : p \in Perms(1 .. Len(ROLES))}

ShuffledRoles(trainable_idx, forced) ==
    IF trainable_idx # None /\ forced THEN ForcedRoleLists(trainable_idx)
    ELSE UniformRoleLists

\* Engine.__init__ after the length check, with the outcomes of its random calls given
NewEngine(game_id, deck, trainable_idx, sabotage_protocols_to_win, security_protocols_to_win, shuffled_roles, president_rotation) ==
    [FreshInstance EXCEPT
        !.pc = "start", !.game_id = game_id, !.deck = deck,
        !.sabotage_track_target = sabotage_protocols_to_win,
        !.security_track_target = security_protocols_to_win,
        !.promotion_threshold = sabotage_protocols_to_win \div 2,
        !.role = shuffled_roles, !.policy_agent_id = trainable_idx,
        !.president_rotation = president_rotation,
        !.msg_history = [a \in AgentIds |-> <<SystemPrompt>>],
        !.initial_count = PileSize(deck.cards) + PileSize(deck.discard_pile)]

\* the agents with an ai_model: the opponents
Opponents(e) == AgentIds \ {e.policy_agent_id}

(***************************************************************************)
(* Engine: what leaves the task                                            *)
(***************************************************************************)
PutOutput(e, msg) ==
    [e EXCEPT !.output_queue = Append(@, msg),
              !.out_log = Append(@, [kind |-> msg.kind,
                                     terminal |-> ~msg.terminal_state.none,
                                     reward |-> msg.terminal_state.reward,
                                     winners |-> msg.terminal_state.winners,
                                     winning_team |-> msg.terminal_state.winning_team])]

\* _run_engine, "except Exception": the error text is put on the output queue
RaiseException(e) ==
    [PutOutput(e, EngineErrorString) EXCEPT
        !.pc = "done", !.exit_kind = "exception", !.awaiting = None]

\* _run_engine, "except AgentNotFoundError": a terminal ModelInput with reward -1
RaiseAgentNotFound(e) ==
    [PutOutput(e, ModelInput(<<>>, NoToolCall,
                             TerminalState(e.game_id, 0 - 1, <<>>, "None", None))) EXCEPT
        !.pc = "done", !.exit_kind = "agent_not_found", !.awaiting = None]

\* a variant of _is_game_over without the promotion test
IsGameOver_WithoutPromotion(e) ==
    \/ e.sabotage_progress >= e.sabotage_track_target
    \/ e.security_progress >= e.security_track_target

\* _master_impostor_promoted
MasterImpostorPromoted(e) ==
    IF e.sabotage_progress < e.promotion_threshold THEN FALSE
    ELSE IF e.current_chancellor_id = None THEN FALSE
    ELSE e.role[e.current_chancellor_id] = "MASTER_IMPOSTOR"

\* _is_game_over
IsGameOver(e) ==
    \/ e.sabotage_progress >= e.sabotage_track_target
    \/ e.security_progress >= e.security_track_target
    \/ MasterImpostorPromoted(e)

\* a variant of _get_winners whose Impostor branch leaves out the Impostor
GetWinners_MasterOnly(e) ==
    IF e.sabotage_progress >= e.sabotage_track_target \/ MasterImpostorPromoted(e)
    THEN SelectIds(SortedSeq(AgentIds), {a \in AgentIds : e.role[a] = "MASTER_IMPOSTOR"})
    ELSE SelectIds(SortedSeq(AgentIds), {a \in AgentIds : e.role[a] = "CREWMATE"})

\* _get_winners: the agents, in the order of agents_by_id
GetWinners(e) ==
    IF e.sabotage_progress >= e.sabotage_track_target \/ MasterImpostorPromoted(e)
    THEN SelectIds(SortedSeq(AgentIds),
                   {a \in AgentIds : e.role[a] \in {"MASTER_IMPOSTOR", "IMPOSTOR"}})
    ELSE SelectIds(SortedSeq(AgentIds), {a \in AgentIds : e.role[a] = "CREWMATE"})

\* _generate_terminal_state
GenerateTerminalState(e) ==
    LET winners == GetWinners(e)
        trainable_winners == {a \in Range(winners) : a = e.policy_agent_id}
        reward == IF trainable_winners # {} THEN 1 ELSE 0
        winning_team == IF winners = <<>> THEN "None"
                        ELSE IF e.role[winners[1]] = "CREWMATE" THEN "crewmate"
                        ELSE "impostor"
    IN TerminalState(e.game_id, reward, winners, winning_team, e.policy_agent_id)

\* run, lines 373-390: the terminal ModelInput with the policy's rendered history
Finish(e) ==
    LET final_messages == IF e.policy_agent_id # None
                          THEN ConvertMessageHistory(e.msg_history[e.policy_agent_id])
                          ELSE <<>>
    IN [PutOutput(e, ModelInput(final_messages, NoToolCall, GenerateTerminalState(e)))
           EXCEPT !.pc = "done", !.exit_kind = "returned", !.awaiting = None]

(***************************************************************************)
(* Engine: _get_tool up to its await                                       *)
(***************************************************************************)
\* sorted(events, key=lambda e: e.event_order_counter): a stable sort
RECURSIVE SortByCounter(_)
SortByCounter(s) ==
    IF s = <<>> THEN <<>>
    ELSE LET k == CHOOSE k \in 1 .. Len(s) : \A j \in 1 .. Len(s) :
                      \/ s[k].event_order_counter < s[j].event_order_counter
                      \/ s[k].event_order_counter = s[j].event_order_counter /\ k <= j
         IN <<s[k]>> \o SortByCounter(RemoveAt(s, k))

\* a variant of VisibleEvents that reads the private events of every agent
RECURSIVE AllPrivateEvents(_, _)
AllPrivateEvents(e, agents) ==
    IF agents = <<>> THEN <<>>
    ELSE e.private_events_by_agent[Head(agents)] \o AllPrivateEvents(e, Tail(agents))

VisibleEvents_OfAllAgents(e, agent_id) ==
    e.public_events \o AllPrivateEvents(e, SortedSeq(AgentIds))

\* the events _get_new_user_events_since_last_message reads for agent_id
VisibleEvents(e, agent_id) ==
    e.public_events \o e.private_events_by_agent[agent_id]

\* _get_new_user_events_since_last_message: the new events of the agent in counter
\* order, then the game state with the action prompt; the cursor moves to the last
NewEvents(e, agent_id) ==
    SelectSeq(SortByCounter(VisibleEvents(e, agent_id)),
              LAMBDA ev : ev.event_order_counter > e.last_seen_event_counter[agent_id])

\* a variant of _get_new_user_events_since_last_message without the cursor update of
\* lines 714-715
GetNewUserEventsSinceLastMessage_CursorKept(e, agent_id, guidance, cards) ==
    LET new_events == NewEvents(e, agent_id)
        user_inputs == [k \in 1 .. Len(new_events) |->
                           UserInput("event", new_events[k], "", NoCards)]
                       \o <<UserInput("action", NoEvent, guidance, cards)>>
    IN [e EXCEPT !.msg_history[agent_id] = @ \o user_inputs]

GetNewUserEventsSinceLastMessage(e, agent_id, guidance, cards) ==
    LET new_events == NewEvents(e, agent_id)
        user_inputs == [k \in 1 .. Len(new_events) |->
                           UserInput("event", new_events[k], "", NoCards)]
                       \o <<UserInput("action", NoEvent, guidance, cards)>>
    IN [e EXCEPT
           !.msg_history[agent_id] = @ \o user_inputs,
           !.last_seen_event_counter[agent_id] =
               IF new_events # <<>> THEN new_events[Len(new_events)].event_order_counter
               ELSE @]

\* _get_tool, lines 401-443 and 448: AgentNotFoundError for an unknown id; else the new
\* events are folded into the agent's history and the decision is requested, from the
\* trainer with a ModelInput on the output queue, from an opponent by generate_response
GetToolRequest(e, agent_id, guidance, cards, allowed_tool, eligible_agent_ids, next_pc) ==
    IF agent_id \notin AgentIds THEN RaiseAgentNotFound(e)
    ELSE LET f == GetNewUserEventsSinceLastMessage(e, agent_id, guidance, cards)
             target == ToolCallTarget(allowed_tool, eligible_agent_ids)
             g == [f EXCEPT !.pc = next_pc, !.awaiting = agent_id, !.req = target]
         IN IF e.policy_agent_id # None /\ agent_id = e.policy_agent_id
            THEN PutOutput(g, ModelInput(ConvertMessageHistory(g.msg_history[agent_id]),
                                         target, NoTerminalState))
            ELSE g

\* a variant of RecordResponse that appends the response to the history of every
\* agent, not to msg_history[agent_id] alone
RecordResponse_ToEveryHistory(e, agent_id, response) ==
    [e EXCEPT !.msg_history =
                  [a \in AgentIds |-> IF a = agent_id
                                      THEN @[a] \o <<response, ToolFeedback(response)>>
                                      ELSE @[a] \o <<response>>]]

\* _get_tool, lines 445/453-469: the response and the feedback go into the history
RecordResponse(e, agent_id, response) ==
    [e EXCEPT !.msg_history[agent_id] = @ \o <<response, ToolFeedback(response)>>]

(***************************************************************************)
(* Engine.run, _discourse, _vote: from a decision to the next await.       *)
(* Each operator gives the set of states the task can be in at its next    *)
(* suspension (or exit); the set has several elements where the code draws *)
(* at random.                                                              *)
(***************************************************************************)
President(e) == e.president_rotation[e.current_president_idx + 1]

\* run, lines 231-235
EligibleChancellorIds(e) ==
    {aid \in AgentIds : aid # President(e) /\ aid # e.current_chancellor_id}

\* a variant of the advance in which the failed branch of run (lines 262-274) goes
\* to "continue" without it: only a round with a legislative session moves the chair
AdvancePresident_NotAfterFailedVote(e) ==
    IF e.failed_election_tracker > 0 THEN e
    ELSE [e EXCEPT !.current_president_idx = (@ + 1) % Len(e.president_rotation)]

\* run, lines 268-270 and 367-369
AdvancePresident(e) ==
    [e EXCEPT !.current_president_idx = (@ + 1) % Len(e.president_rotation)]

AppendPublic(e, type, agent_id, other_id, vote, card) ==
    [e EXCEPT !.public_events = Append(@, Event(type, e.event_counter, agent_id,
                                                other_id, vote, NoCards, card)),
              !.event_counter = @ + 1]

\* a variant of AppendPrivate that leaves out "self.event_counter += 1"
AppendPrivate_CounterKept(e, recipient, type, other_id, cards, card) ==
    [e EXCEPT !.private_events_by_agent[recipient] =
                  Append(@, Event(type, e.event_counter, recipient, other_id, FALSE,
                                  cards, card))]

AppendPrivate(e, recipient, type, other_id, cards, card) ==
    [e EXCEPT !.private_events_by_agent[recipient] =
                  Append(@, Event(type, e.event_counter, recipient, other_id, FALSE,
                                  cards, card)),
              !.event_counter = @ + 1]

ResolveCard(e, card) ==
    IF card = SABOTAGE THEN [e EXCEPT !.sabotage_progress = @ + 1]
    ELSE [e EXCEPT !.security_progress = @ + 1]

\* run, lines 228-247: the loop test, then the nomination is requested
LoopTop(e) ==
    IF IsGameOver(e) THEN {Finish(e)}
    ELSE {GetToolRequest([e EXCEPT !.round = @ + 1], President(e), "nominate", NoCards,
                         "president-pick-chancellor", EligibleChancellorIds(e),
                         "nominate")}

\* asyncio.gather over the opponents' _get_tool (lines 476-489, 580-593): every
\* opponent's task folds its new events and calls generate_response
RECURSIVE FoldAll(_, _, _)
FoldAll(e, agents, guidance) ==
    IF agents = <<>> THEN e
    ELSE FoldAll(GetNewUserEventsSinceLastMessage(e, Head(agents), guidance, NoCards),
                 Tail(agents), guidance)

\* a variant of GatherStart that puts the trainable policy into the concurrent batch,
\* which lines 476-500 and 580-604 avoid: its request goes out when the gather starts
GatherStart_PolicyInBatch(e, guidance, allowed_tool, next_pc) ==
    LET g == IF e.policy_agent_id # None
             THEN GetToolRequest(e, e.policy_agent_id, guidance, NoCards, allowed_tool,
                                 {}, next_pc)
             ELSE e
    IN [FoldAll(g, SortedSeq(Opponents(e)), guidance) EXCEPT
           !.pc = next_pc, !.pending = Opponents(e), !.awaiting = None,
           !.req = ToolCallTarget(allowed_tool, {}),
           !.ai_tools = [a \in AgentIds |-> NoTool]]

GatherStart(e, guidance, allowed_tool, next_pc) ==
    [FoldAll(e, SortedSeq(Opponents(e)), guidance) EXCEPT
        !.pc = next_pc, !.pending = Opponents(e), !.awaiting = None,
        !.req = ToolCallTarget(allowed_tool, {}),
        !.ai_tools = [a \in AgentIds |-> NoTool]]

StartDiscourse(e, disc_no) ==
    GatherStart([e EXCEPT !.disc_no = disc_no], "speak", "ask-agent-if-wants-to-speak",
                "disc_gather")

StartVote(e) == GatherStart(e, "vote", "vote-chancellor-yes-no", "vote_gather")

\* run, lines 365-371: after the second discourse the captain advances
AfterDiscourse(e) ==
    IF e.disc_no = 1 THEN {StartVote(e)} ELSE LoopTop(AdvancePresident(e))

\* a variant of the rebuilding of the tools in which the trainable tool is appended
\* after the gathered ones instead of being put at the slot of its agent
ReconstructTools_PolicyLast(e) ==
    LET order == SortedSeq(AgentIds)
        ai_aids == SelectSeq(order, LAMBDA a : a # e.policy_agent_id)
        ai_tools == [k \in 1 .. Len(ai_aids) |-> e.ai_tools[ai_aids[k]]]
        trainable_tool == IF e.policy_agent_id # None THEN e.ai_tools[e.policy_agent_id]
                          ELSE NoTool
        tools == IF e.policy_agent_id # None THEN ai_tools \o <<trainable_tool>>
                 ELSE ai_tools
    IN [a \in AgentIds |-> tools[a + 1]]

\* _discourse, lines 488-510, and _vote, lines 592-604: gather returns the opponents'
\* tools in the order of ai_tasks (the agent order without the trainable agent),
\* whatever the order in which they completed; "Reconstruct tools in original order"
\* walks the agents, taking the trainable tool at the trainable agent's turn and
\* ai_tools[ai_idx] otherwise
ReconstructTools(e) ==
    LET order == SortedSeq(AgentIds)
        ai_aids == SelectSeq(order, LAMBDA a : a # e.policy_agent_id)
        ai_tools == [k \in 1 .. Len(ai_aids) |-> e.ai_tools[ai_aids[k]]]
        trainable_tool == IF e.policy_agent_id # None THEN e.ai_tools[e.policy_agent_id]
                          ELSE NoTool
        ai_idx(a) == Cardinality({b \in AgentIds : b < a /\ b # e.policy_agent_id})
    IN [a \in AgentIds |-> IF a = e.policy_agent_id THEN trainable_tool
                           ELSE ai_tools[ai_idx(a) + 1]]

\* _discourse, lines 520-555: the speeches in the shuffled order; a directed question
\* is answered by its target before the next speech
RECURSIVE SpeakLoop(_)
SpeakLoop(e) ==
    IF e.speakers = <<>> THEN AfterDiscourse(e)
    ELSE LET aid == Head(e.speakers)
             tool == e.ai_tools[aid]
             target == tool.ask_directed_question_to_agent_id
             e1 == [AppendPublic(e, "AskAgentIfWantsToSpeakEventPublic", aid, target,
                                 FALSE, "")
                       EXCEPT !.speakers = Tail(@), !.cur_speaker = aid]
         IN IF target # None
            THEN {GetToolRequest(e1, target, "respond", NoCards,
                                 "agent-response-to-question-tool", {}, "disc_answer")}
            ELSE SpeakLoop(e1)

\* _discourse, lines 502-518: the tools in agent order, the speakers, random.shuffle
AfterDiscourseCollected(c) ==
    LET e == [c EXCEPT !.ai_tools = ReconstructTools(c)] IN
    IF \E a \in AgentIds : ~HasAttr(e.ai_tools[a], "question_or_statement")
    THEN {RaiseException(e)}
    ELSE LET speakers == {a \in AgentIds : Truthy(e.ai_tools[a].question_or_statement)}
         IN UNION {SpeakLoop([e EXCEPT !.speakers = p]) : p \in Perms(speakers)}

\* a variant of AfterAnswer with the two ids of the answer event swapped
AfterAnswer_IdsSwapped(e, tool) ==
    IF ~HasAttr(tool, "response") THEN {RaiseException(e)}
    ELSE SpeakLoop(AppendPublic(e, "AgentResponseToQuestioningEventPublic",
                                e.cur_speaker, e.awaiting, FALSE, ""))

\* _discourse, lines 545-555
AfterAnswer(e, tool) ==
    IF ~HasAttr(tool, "response") THEN {RaiseException(e)}
    ELSE SpeakLoop(AppendPublic(e, "AgentResponseToQuestioningEventPublic", e.awaiting,
                                e.cur_speaker, FALSE, ""))

\* run, lines 248-259
AfterNominate(e, tool) ==
    IF ~HasAttr(tool, "agent_id") \/ tool.agent_id = None THEN {RaiseException(e)}
    ELSE {StartDiscourse([AppendPublic(e, "PresidentPickChancellorEventPublic",
                                       President(e), tool.agent_id, FALSE, "")
                             EXCEPT !.chancellor_id = tool.agent_id], 1)}

\* a variant of _handle_failed_election that publishes the drawn card without
\* counting it on its track
HandleFailedElection_CardNotCounted(e) ==
    {IF r.ok
     THEN [AppendPublic([e EXCEPT !.deck = r.deck],
                        "ChancellorPlayPolicyEventPublic", None, None, FALSE, r.drawn[1])
              EXCEPT !.failed_election_tracker = 0]
     ELSE RaiseException([e EXCEPT !.deck = r.deck]) : r \in Draw(e.deck, 1)}

\* a variant of _handle_failed_election that leaves out "self.failed_election_tracker = 0"
HandleFailedElection_TrackerKept(e) ==
    {IF r.ok
     THEN ResolveCard(AppendPublic([e EXCEPT !.deck = r.deck],
                                   "ChancellorPlayPolicyEventPublic", None, None, FALSE,
                                   r.drawn[1]), r.drawn[1])
     ELSE RaiseException([e EXCEPT !.deck = r.deck]) : r \in Draw(e.deck, 1)}

\* _handle_failed_election
HandleFailedElection(e) ==
    {IF r.ok
     THEN [ResolveCard(AppendPublic([e EXCEPT !.deck = r.deck],
                                    "ChancellorPlayPolicyEventPublic", None, None, FALSE,
                                    r.drawn[1]), r.drawn[1])
              EXCEPT !.failed_election_tracker = 0]
     ELSE RaiseException([e EXCEPT !.deck = r.deck]) : r \in Draw(e.deck, 1)}

\* _vote, lines 606-629: one Vote event per agent in agent order
RECURSIVE AppendVotes(_, _)
AppendVotes(e, agents) ==
    IF agents = <<>> THEN e
    ELSE AppendVotes(AppendPublic(e, "VoteChancellorYesNoEventPublic", Head(agents),
                                  e.chancellor_id, e.ai_tools[Head(agents)].choice, ""),
                     Tail(agents))

\* a variant of the test of _vote, line 629, with ">=" for ">"
VotePassed_HalfIsEnough(e) ==
    Cardinality({a \in AgentIds : e.ai_tools[a].choice}) >= Cardinality(AgentIds) \div 2

\* _vote, line 629: sum(votes) > len(votes) // 2
VotePassed(e) ==
    Cardinality({a \in AgentIds : e.ai_tools[a].choice}) > Cardinality(AgentIds) \div 2

\* run, lines 262-295, after _vote has every tool; a tool without .choice raises
\* at its turn of the loop, after the Vote events of the agents before it
AfterVoteCollected(c) ==
    LET e == [c EXCEPT !.ai_tools = ReconstructTools(c)]
        bad == {a \in AgentIds : ~HasAttr(e.ai_tools[a], "choice")}
    IN
    IF bad # {}
    THEN LET first_bad == CHOOSE a \in bad : \A b \in bad : a <= b
         IN {RaiseException(AppendVotes(e, SortedSeq({a \in AgentIds : a < first_bad})))}
    ELSE LET v == AppendVotes(e, SortedSeq(AgentIds))
         IN IF ~VotePassed(e)
            THEN LET f == [v EXCEPT !.failed_election_tracker = @ + 1]
                     h == IF f.failed_election_tracker >= 3 THEN HandleFailedElection(f)
                          ELSE {f}
                 IN UNION {IF x.pc = "done" THEN {x} ELSE LoopTop(AdvancePresident(x)) :
                              x \in h}
            ELSE LET s == [v EXCEPT !.failed_election_tracker = 0,
                                    !.current_chancellor_id = e.chancellor_id,
                                    !.seated_at_sabotage = e.sabotage_progress]
                 IN {IF r.ok
                     THEN GetToolRequest([s EXCEPT !.deck = r.deck,
                                                   !.cards_with_ids = r.drawn],
                                         President(s), "discard", r.drawn,
                                         "president-choose-card-to-discard", {}, "discard")
                     ELSE RaiseException([s EXCEPT !.deck = r.deck]) :
                        r \in Draw(s.deck, 3)}

\* list.pop(idx) and list[idx] of Python: a negative index counts from the end
PyIndexOk(idx, len) == 0 - len <= idx /\ idx < len
PyIndex(idx, len) == IF idx < 0 THEN idx + len + 1 ELSE idx + 1
\* s[:idx] of Python
PySliceTo(s, idx) ==
    LET cut == IF idx < 0 THEN (IF Len(s) + idx < 0 THEN 0 ELSE Len(s) + idx)
               ELSE (IF idx > Len(s) THEN Len(s) ELSE idx)
    IN SubSeq(s, 1, cut)
\* s[idx:] of Python
PySliceFrom(s, idx) ==
    LET cut == IF idx < 0 THEN (IF Len(s) + idx < 0 THEN 0 ELSE Len(s) + idx)
               ELSE (IF idx > Len(s) THEN Len(s) ELSE idx)
    IN SubSeq(s, cut + 1, Len(s))

\* a variant of the captain's discard that puts the first of the three cards on the
\* discard pile, whatever index was chosen
AfterDiscardChoice_FirstCardDiscarded(e, tool) ==
    IF ~HasAttr(tool, "card_index") \/ ~PyIndexOk(tool.card_index, Len(e.cards_with_ids))
    THEN {RaiseException(e)}
    ELSE LET idx == tool.card_index
             k == PyIndex(idx, Len(e.cards_with_ids))
             discarded_card == e.cards_with_ids[k]
             rest == RemoveAt(e.cards_with_ids, k)
             all_cards == PySliceTo(rest, idx) \o <<discarded_card>> \o PySliceFrom(rest, idx)
             e1 == [e EXCEPT !.deck = AddToDiscard(@, e.cards_with_ids[1]),
                             !.cards_with_ids = rest]
             e2 == AppendPrivate(e1, President(e),
                                 "PresidentChooseCardToDiscardEventPrivate", None,
                                 all_cards, discarded_card)
         IN {GetToolRequest(e2, e.chancellor_id, "play", rest,
                            "chancellor-play-policy", {}, "play")}

\* run, lines 297-330: the captain's discard
AfterDiscardChoice(e, tool) ==
    IF ~HasAttr(tool, "card_index") \/ ~PyIndexOk(tool.card_index, Len(e.cards_with_ids))
    THEN {RaiseException(e)}
    ELSE LET idx == tool.card_index
             k == PyIndex(idx, Len(e.cards_with_ids))
             discarded_card == e.cards_with_ids[k]
             rest == RemoveAt(e.cards_with_ids, k)
             all_cards == PySliceTo(rest, idx) \o <<discarded_card>> \o PySliceFrom(rest, idx)
             e1 == [e EXCEPT !.deck = AddToDiscard(@, discarded_card),
                             !.cards_with_ids = rest]
             e2 == AppendPrivate(e1, President(e),
                                 "PresidentChooseCardToDiscardEventPrivate", None,
                                 all_cards, discarded_card)
         IN {GetToolRequest(e2, e.chancellor_id, "play", rest,
                            "chancellor-play-policy", {}, "play")}

\* run, lines 331-365: the first mate's play
AfterPlayChoice(e, tool) ==
    IF \/ ~HasAttr(tool, "card_index")
       \/ ~PyIndexOk(tool.card_index, Len(e.cards_with_ids))
       \/ ~PyIndexOk(1 - tool.card_index, Len(e.cards_with_ids))
    THEN {RaiseException(e)}
    ELSE LET idx == tool.card_index
             played == e.cards_with_ids[PyIndex(idx, Len(e.cards_with_ids))]
             discarded_by_chancellor_card ==
                 e.cards_with_ids[PyIndex(1 - idx, Len(e.cards_with_ids))]
             e1 == [e EXCEPT !.deck = AddToDiscard(@, discarded_by_chancellor_card)]
             e2 == AppendPrivate(e1, e.chancellor_id,
                                 "ChancellorReceivePoliciesEventPrivate", President(e),
                                 e.cards_with_ids, discarded_by_chancellor_card)
             e3 == AppendPublic(e2, "ChancellorPlayPolicyEventPublic", e.chancellor_id,
                                None, FALSE, played)
             e4 == [ResolveCard(e3, played) EXCEPT !.cards_with_ids = NoCards]
         IN {StartDiscourse(e4, 2)}

\* the code after the await of a single _get_tool, by the place of the call
Continue(e, tool) ==
    CASE e.pc = "nominate" -> AfterNominate(e, tool)
      [] e.pc = "disc_policy" ->
             AfterDiscourseCollected([e EXCEPT !.ai_tools[e.awaiting] = tool])
      [] e.pc = "disc_answer" -> AfterAnswer(e, tool)
      [] e.pc = "vote_policy" ->
             AfterVoteCollected([e EXCEPT !.ai_tools[e.awaiting] = tool])
      [] e.pc = "discard" -> AfterDiscardChoice(e, tool)
      [] e.pc = "play" -> AfterPlayChoice(e, tool)

(***************************************************************************)
(* The answers of the deciders.  The opponents answer inside the schema    *)
(* they were given (strict function calling); the trainer's ModelOutput is *)
(* any string.  A menu m bounds the answers that are tried.                *)
(***************************************************************************)
\* the k smallest elements of the set of integers S
RECURSIVE FirstK(_, _)
FirstK(S, k) ==
    IF k = 0 \/ S = {} THEN {}
    ELSE LET lo == CHOOSE x \in S : \A y \in S : x <= y
         IN {lo} \cup FirstK(S \ {lo}, k - 1)

\* speeches made or announced so far in the game
SpeechCount(e) ==
    Cardinality({k \in DOMAIN e.public_events :
                    e.public_events[k].type = "AskAgentIfWantsToSpeakEventPublic"})
    + (IF e.pc \in {"disc_gather", "disc_policy"}
       THEN Cardinality({a \in AgentIds : Truthy(e.ai_tools[a].question_or_statement)})
       ELSE 0)

\* whether the menu m lets a speech be made in the discourse at hand
MaySpeak(m, e) ==
    SpeechCount(e) < m.max_speeches /\ <<e.round, e.disc_no>> \in m.talk_slots

\* the answers inside the schema that agent a is taken to give to the request req
SchemaTools(m, e, a, req) ==
    CASE req.name = "president-pick-chancellor" ->
             {Tool(req.name, x, FALSE, 0, "None", None, "") :
                 x \in IF req.openai_schema.enum \cap m.nominees # {}
                       THEN req.openai_schema.enum \cap m.nominees
                       ELSE FirstK(req.openai_schema.enum, 1)}
      [] req.name = "ask-agent-if-wants-to-speak" ->
             {Tool(req.name, None, FALSE, 0, q, None, "") :
                 q \in {"None"} \cup (IF a \in m.talkers /\ MaySpeak(m, e)
                                      THEN {"q"} ELSE {})}
      [] req.name = "vote-chancellor-yes-no" ->
             {Tool(req.name, None, c, 0, "None", None, "") :
                 c \in IF a \in m.always_no THEN {FALSE}
                       ELSE {TRUE} \cup (IF a \in m.no_voters THEN {FALSE} ELSE {})}
      [] req.name = "president-choose-card-to-discard" ->
             {Tool(req.name, None, FALSE, x, "None", None, "") :
                 x \in req.openai_schema.enum \cap
                          (IF a = e.policy_agent_id THEN m.card_indices
                           ELSE m.opponent_card_indices)}
      [] req.name = "chancellor-play-policy" ->
             {Tool(req.name, None, FALSE, x, "None", None, "") :
                 x \in req.openai_schema.enum \cap
                          (IF a = e.policy_agent_id THEN m.card_indices
                           ELSE m.opponent_card_indices)}
      [] req.name = "agent-response-to-question-tool" ->
             {Tool(req.name, None, FALSE, 0, "None", None, "r")}
      [] OTHER -> {}

\* answers of the trainer that name the requested tool with a value outside its schema
OutOfSchemaTools(m, e, req) ==
    CASE req.name = "president-pick-chancellor" ->
             {Tool(req.name, x, FALSE, 0, "None", None, "") :
                 x \in m.policy_nominees \ req.openai_schema.enum}
      [] req.name = "ask-agent-if-wants-to-speak" ->
             {Tool(req.name, None, FALSE, 0, "q", x, "") :
                 x \in IF MaySpeak(m, e)
                       THEN m.policy_targets \ req.openai_schema.enum ELSE {}}
      [] req.name = "president-choose-card-to-discard" ->
             {Tool(req.name, None, FALSE, x, "None", None, "") :
                 x \in m.policy_card_indices \ req.openai_schema.enum}
      [] req.name = "chancellor-play-policy" ->
             {Tool(req.name, None, FALSE, x, "None", None, "") :
                 x \in m.policy_card_indices \ req.openai_schema.enum}
      [] OTHER -> {}

\* answers of the trainer that name another tool of tool_map than the requested one,
\* with arguments that fit the class of the named tool
OtherTools(m, e, req) ==
    {t \in {Tool("chancellor-play-policy", None, FALSE, 0, "None", None, "")}
            \cup {Tool("choose-agent-to-vote-out", x, FALSE, 0, "None", None, "") :
                     x \in m.nominees} :
        t.tool_type \in m.other_tools /\ t.tool_type # req.name}

\* format_tool_response_for_game_engine: {"tool_name": ..., "arguments": {...}}
OutputOf(tool) == ModelOutput(TRUE, tool.tool_type, RequiredKeys(tool.tool_type), tool)

\* strings that are not an answer: no JSON, no "tool_name", a name outside tool_map
BadOutputs(m) ==
    (IF "bad_json" \in m.bad_outputs THEN {ModelOutput(FALSE, "", {}, NoTool)} ELSE {})
    \cup (IF "no_tool_name" \in m.bad_outputs THEN {ModelOutput(TRUE, "", {}, NoTool)} ELSE {})
    \cup (IF "unknown_tool" \in m.bad_outputs
          THEN {ModelOutput(TRUE, "no-such-tool", {}, NoTool)} ELSE {})

TrainerOutputs(m, e, req) ==
    {OutputOf(t) : t \in SchemaTools(m, e, e.policy_agent_id, req)
                         \cup OutOfSchemaTools(m, e, req) \cup OtherTools(m, e, req)}
    \cup BadOutputs(m)

(***************************************************************************)
(* State and actions                                                       *)
(***************************************************************************)
\* the caller of create and execute (the rollout loop): where it is, the queues it
\* was handed, the ModelOutput it last sent and what it last got back
IdleCaller ==
    [pc |-> "idle", inst |-> None, model_output |-> ModelOutput(TRUE, "", {}, NoTool),
     model_input |-> EngineErrorString, error |-> ""]

Init ==
    /\ inst = [i \in Instances |-> FreshInstance]
    /\ games = [g \in GameIds |-> None]
    /\ engines = [g \in GameIds |-> None]
    /\ tasks = [g \in GameIds |-> None]
    /\ caller = [g \in GameIds |-> IdleCaller]

IsPermutation(p) == DOMAIN p = 1 .. Len(ROLES) /\ Range(p) = AgentIds

\* EngineAPI.create, lines 37-58: the queues are registered, the Engine is made, the
\* task is spawned; the caller then waits on the output queue (line 61)
Create(m, g, i) ==
    /\ caller[g].pc = "idle"
    /\ inst[i].pc = "none"
    /\ \E trainable_idx \in m.trainable_slots, targets \in m.targets, cards \in m.decks,
          forced \in m.forced, president_rotation \in m.rotations :
         \E shuffled_roles \in ShuffledRoles(trainable_idx, forced) :
            /\ IsPermutation(president_rotation)
            /\ \E a \in m.master_slots : shuffled_roles[a] = "MASTER_IMPOSTOR"
            /\ \E a \in m.impostor_slots : shuffled_roles[a] = "IMPOSTOR"
            /\ inst' = [inst EXCEPT ![i] =
                          NewEngine(g, NewDeck(cards[1], cards[2]), trainable_idx,
                                    targets[1], targets[2], shuffled_roles,
                                    president_rotation)]
    /\ games' = [games EXCEPT ![g] = i]
    /\ engines' = [engines EXCEPT ![g] = i]
    /\ tasks' = [tasks EXCEPT ![g] = i]
    /\ caller' = [caller EXCEPT ![g] = [@ EXCEPT !.pc = "create_wait", !.inst = i]]

\* _run_engine, "finally": the entries under the task's game_id are deleted
Exits(i, n) == n.pc = "done" /\ inst[i].pc # "done"

\* a variant of TaskMoves whose "finally" empties the whole registry
TaskMoves_EveryEntryDeleted(m, i, n) ==
    /\ n.round <= m.max_rounds
    /\ inst' = [inst EXCEPT ![i] = n]
    /\ IF Exits(i, n)
       THEN /\ games' = [g \in GameIds |-> None]
            /\ engines' = [g \in GameIds |-> None]
            /\ tasks' = [g \in GameIds |-> None]
       ELSE UNCHANGED <<games, engines, tasks>>
    /\ UNCHANGED caller

\* a variant of TaskMoves without "del self.games[game_id]" in "finally"
TaskMoves_GamesEntryKept(m, i, n) ==
    /\ n.round <= m.max_rounds
    /\ inst' = [inst EXCEPT ![i] = n]
    /\ IF Exits(i, n)
       THEN /\ engines' = [engines EXCEPT ![n.game_id] = None]
            /\ tasks' = [tasks EXCEPT ![n.game_id] = None]
            /\ UNCHANGED games
       ELSE UNCHANGED <<games, engines, tasks>>
    /\ UNCHANGED caller

\* a step of the task of instance i to its next await or to its end; _run_engine,
\* lines 106-112, at the end
TaskMoves(m, i, n) ==
    /\ n.round <= m.max_rounds
    /\ inst' = [inst EXCEPT ![i] = n]
    /\ IF Exits(i, n)
       THEN /\ games' = [games EXCEPT ![n.game_id] = None]
            /\ engines' = [engines EXCEPT ![n.game_id] = None]
            /\ tasks' = [tasks EXCEPT ![n.game_id] = None]
       ELSE UNCHANGED <<games, engines, tasks>>
    /\ UNCHANGED caller

\* the task starts: _run_engine calls engine.run
TaskStart(m, i) ==
    /\ inst[i].pc = "start"
    /\ \E n \in LoopTop(inst[i]) : TaskMoves(m, i, n)

SingleAwaits == {"nominate", "disc_policy", "disc_answer", "vote_policy", "discard", "play"}

\* _get_tool, lines 444-469, for the trainable policy: input_queue.get() returns, the
\* ModelOutput is parsed, and run goes on to its next await
TaskGetsOutput(m, i) ==
    LET e == inst[i] IN
    /\ e.pc \in SingleAwaits
    /\ e.awaiting # None /\ e.awaiting = e.policy_agent_id
    /\ e.input_queue # <<>>
    /\ LET parsed == Parse(Head(e.input_queue))
           e1 == [e EXCEPT !.input_queue = Tail(@), !.n_got = @ + 1]
       IN IF ~parsed.ok
          THEN TaskMoves(m, i, RaiseException(e1))
          ELSE \E n \in Continue(RecordResponse(e1, e.awaiting, parsed.response),
                                 parsed.response.hydrated_tool_calls[1]) :
                  TaskMoves(m, i, [n EXCEPT !.decisions =
                      Append(@, [req |-> e.req, pc |-> e.pc,
                                 tool |-> parsed.response.hydrated_tool_calls[1],
                                 raised |-> n.exit_kind = "exception"])])

\* _get_tool, lines 448-469, for an opponent awaited alone: generate_response returns
\* a response or raises
OpponentResponds(m, i) ==
    LET e == inst[i] IN
    /\ e.pc \in SingleAwaits
    /\ e.awaiting # None /\ e.awaiting # e.policy_agent_id
    /\ \/ \E tool \in SchemaTools(m, e, e.awaiting, e.req) :
            \E n \in Continue(RecordResponse(e, e.awaiting, AssistantResponse(tool)), tool) :
               TaskMoves(m, i, n)
       \/ /\ e.awaiting \in m.failing /\ e.req.name \in m.failing_tools
          /\ TaskMoves(m, i, RaiseException([e EXCEPT !.opponent_failed = TRUE]))

\* one opponent's task of the gather: generate_response returns and its _get_tool
\* returns the tool, or raises; gather then raises in _discourse / _vote, and the
\* other tasks go on (gather does not cancel them)
OpponentRespondsInGather(m, i, a) ==
    LET e == inst[i] IN
    /\ a \in e.pending
    /\ \/ \E tool \in SchemaTools(m, e, a, e.req) :
            TaskMoves(m, i, [RecordResponse(e, a, AssistantResponse(tool)) EXCEPT
                                !.pending = @ \ {a}, !.ai_tools[a] = tool])
       \/ /\ a \in m.failing /\ e.req.name \in m.failing_tools
          /\ TaskMoves(m, i, IF e.pc = "done"
                             THEN [e EXCEPT !.pending = @ \ {a}, !.opponent_failed = TRUE]
                             ELSE [RaiseException(e) EXCEPT !.pending = @ \ {a},
                                                            !.opponent_failed = TRUE])

\* gather returns; the trainable policy is then asked alone (lines 491-500, 595-604)
GatherJoin(m, i) ==
    LET e == inst[i] IN
    /\ e.pc \in {"disc_gather", "vote_gather"}
    /\ e.pending = {}
    /\ IF e.policy_agent_id # None
       THEN TaskMoves(m, i, GetToolRequest(e, e.policy_agent_id,
                                IF e.pc = "disc_gather" THEN "speak" ELSE "vote", NoCards,
                                e.req.name, {},
                                IF e.pc = "disc_gather" THEN "disc_policy" ELSE "vote_policy"))
       ELSE \E n \in (IF e.pc = "disc_gather" THEN AfterDiscourseCollected(e)
                      ELSE AfterVoteCollected(e)) : TaskMoves(m, i, n)

\* EngineAPI.execute: ValueError for a game_id that is not registered; else the
\* ModelOutput is put on the registered input queue and the caller waits
Execute(m, g) ==
    /\ caller[g].pc = "ready"
    /\ IF games[g] = None
       THEN /\ caller' = [caller EXCEPT ![g] = [@ EXCEPT !.pc = "failed",
                                                         !.error = "ValueError"]]
            /\ UNCHANGED inst
       ELSE \E out \in TrainerOutputs(m, inst[games[g]], caller[g].model_input.tool_call) :
               /\ inst' = [inst EXCEPT ![games[g]].input_queue = Append(@, out)]
               /\ caller' = [caller EXCEPT ![g] = [@ EXCEPT !.pc = "execute_wait",
                                                            !.inst = games[g],
                                                            !.model_output = out]]
    /\ UNCHANGED <<games, engines, tasks>>

\* create line 61-63 and execute lines 77-79: output_queue.get() returns and the
\* caller asserts that it got a ModelInput
CallerReceives(g) ==
    /\ caller[g].pc \in {"create_wait", "execute_wait"}
    /\ inst[caller[g].inst].output_queue # <<>>
    /\ LET model_input == Head(inst[caller[g].inst].output_queue)
       IN caller' = [caller EXCEPT ![g] =
              IF model_input.kind # "ModelInput"
              THEN [@ EXCEPT !.pc = "failed", !.error = "AssertionError",
                             !.model_input = model_input]
              ELSE [@ EXCEPT !.pc = IF model_input.terminal_state.none THEN "ready"
                                    ELSE "finished",
                             !.model_input = model_input]]
    /\ inst' = [inst EXCEPT ![caller[g].inst].output_queue = Tail(@)]
    /\ UNCHANGED <<games, engines, tasks>>

NextOf(m, G, I) ==
    \/ \E g \in G, i \in I : Create(m, g, i)
    \/ \E i \in I : TaskStart(m, i)
    \/ \E i \in I : TaskGetsOutput(m, i)
    \/ \E i \in I : OpponentResponds(m, i)
    \/ \E i \in I, a \in AgentIds : OpponentRespondsInGather(m, i, a)
    \/ \E i \in I : GatherJoin(m, i)
    \/ \E g \in G : Execute(m, g)
    \/ \E g \in G : CallerReceives(g)

(***************************************************************************)
(* The bounded specification of one game                                   *)
(***************************************************************************)
MaxRounds == 3
MaxSpeeches == 1

MainMenu ==
    [max_rounds |-> MaxRounds, max_speeches |-> MaxSpeeches,
     trainable_slots |-> {4},
     targets |-> {<<2, 1>>},
     decks |-> {<<3, 1>>},
     forced |-> {FALSE},
     rotations |-> {<<0, 4, 1, 2, 3>>},
     master_slots |-> {0}, impostor_slots |-> {1},
     nominees |-> {1, 4},
     talkers |-> {3, 4}, talk_slots |-> {<<1, 1>>}, always_no |-> {1, 2}, no_voters |-> {4},
     failing |-> {0}, failing_tools |-> {"president-pick-chancellor", "vote-chancellor-yes-no"},
     card_indices |-> {0, 1, 2}, opponent_card_indices |-> {0},
     policy_nominees |-> UnknownAgentIds, policy_targets |-> {0} \cup UnknownAgentIds,
     policy_card_indices |-> {3},
     other_tools |-> {}, bad_outputs |-> {"bad_json"}]

Next == NextOf(MainMenu, {"g1"}, {1})

Spec == Init /\ [][Next]_vars

(***************************************************************************)
(* Claims about the output channel                                         *)
(***************************************************************************)
\* C1: in every game, however its orchestrator runs, exactly one ModelInput with a
\* terminal state is put on the output channel and nothing is put after it: at most
\* one was put so far, it is the last thing put, and an orchestrator that has exited
\* has put one
C1_ExactlyOneTerminalAndLast ==
    \A i \in Instances :
        LET out_log == inst[i].out_log
            terminals == {k \in DOMAIN out_log :
                             out_log[k].kind = "ModelInput" /\ out_log[k].terminal}
        IN /\ Cardinality(terminals) <= 1
           /\ \A k \in terminals : k = Len(out_log)
           /\ inst[i].pc = "done" => Cardinality(terminals) = 1

\* C2: an orchestrator that has exited has put a terminal ModelInput on the output
\* channel, and a caller of create or execute never gets anything but a ModelInput
C2_TerminalBeforeExit ==
    /\ \A i \in Instances :
          inst[i].pc = "done" =>
              \E k \in DOMAIN inst[i].out_log :
                  inst[i].out_log[k].kind = "ModelInput" /\ inst[i].out_log[k].terminal
    /\ \A g \in GameIds :
          caller[g].pc \in {"ready", "finished", "failed"} /\ caller[g].inst # None =>
              caller[g].model_input.kind = "ModelInput"

\* C3: the execute call that delivered a malformed ModelOutput returns a terminal
\* ModelInput with reward -1, no winners and no winning team, and it is the only
\* terminal message and the last message of the game
C3_MalformedOutputGivesTerminal ==
    \A g \in GameIds :
        /\ caller[g].pc \in {"ready", "finished", "failed"}
        /\ caller[g].model_output \in BadOutputs(MainMenu)
        => /\ caller[g].pc = "finished"
           /\ caller[g].model_input.kind = "ModelInput"
           /\ ~caller[g].model_input.terminal_state.none
           /\ caller[g].model_input.terminal_state.reward = 0 - 1
           /\ caller[g].model_input.terminal_state.winners = <<>>
           /\ caller[g].model_input.terminal_state.winning_team = "None"
           /\ inst[caller[g].inst].output_queue = <<>>

\* C4: after a generate_response of an opponent has failed, the orchestrator ends the
\* game with a terminal ModelInput of reward -1 as the last thing it puts
C4_OpponentFailureGivesTerminal ==
    \A i \in Instances :
        inst[i].opponent_failed /\ inst[i].pc = "done" =>
            /\ inst[i].out_log # <<>>
            /\ LET last == inst[i].out_log[Len(inst[i].out_log)]
               IN last.kind = "ModelInput" /\ last.terminal /\ last.reward = 0 - 1

\* C5: once a decider has named an agent id that is not one of the game's agents, as
\* the nominee or as the target of a directed question, the game has ended with the
\* terminal ModelInput of reward -1 and no winners; the game does not go on
C5_UnknownAgentEndsGame ==
    \A i \in Instances :
        (\E k \in DOMAIN inst[i].public_events :
            /\ inst[i].public_events[k].type \in {"PresidentPickChancellorEventPublic",
                                                  "AskAgentIfWantsToSpeakEventPublic"}
            /\ inst[i].public_events[k].other_id \in UnknownAgentIds)
        => /\ inst[i].pc = "done"
           /\ inst[i].out_log # <<>>
           /\ LET last == inst[i].out_log[Len(inst[i].out_log)]
              IN /\ last.kind = "ModelInput" /\ last.terminal
                 /\ last.reward = 0 - 1 /\ last.winners = <<>>

\* C6: the ModelInputs put on the output channel number the ModelOutputs taken from
\* the input channel or one more, and one more once the orchestrator has exited
C6_EmittedIsConsumedPlusOne ==
    \A i \in Instances :
        LET emitted == Cardinality({k \in DOMAIN inst[i].out_log :
                                       inst[i].out_log[k].kind = "ModelInput"})
            consumed == inst[i].n_got
        IN /\ emitted \in {consumed, consumed + 1}
           /\ inst[i].pc = "done" => emitted = consumed + 1

\* C7: at most one request to the trainable policy is outstanding: the requests put
\* number the ModelOutputs taken or one more, no queue holds more than one message,
\* and the two queues of a game are never both filled
C7_OneOutstandingRequest ==
    \A i \in Instances :
        LET e == inst[i]
            requests == Cardinality({k \in DOMAIN e.out_log :
                                        e.out_log[k].kind = "ModelInput"
                                        /\ ~e.out_log[k].terminal})
        IN /\ requests \in {e.n_got, e.n_got + 1}
           /\ Len(e.output_queue) <= 1
           /\ Len(e.input_queue) <= 1
           /\ Len(e.output_queue) + Len(e.input_queue) <= 1
           /\ e.pending # {} /\ e.pc # "done" => requests = e.n_got

\* C7 happens: the policy is asked for its vote after the batch of opponents has
\* joined, having answered earlier requests
C7_Witness ==
    \E i \in Instances :
        /\ inst[i].pc = "vote_policy" /\ inst[i].awaiting = inst[i].policy_agent_id
        /\ Len(inst[i].output_queue) = 1 /\ inst[i].n_got >= 1

(***************************************************************************)
(* Claims about the events                                                 *)
(***************************************************************************)
\* C8: the public events and the private events of all agents together carry the
\* counters 0 .. event_counter-1, each once, and every list is in increasing order
C8_CountersContiguousAndIncreasing ==
    \A i \in Instances :
        LET e == inst[i]
            lists == {e.public_events} \cup {e.private_events_by_agent[a] : a \in AgentIds}
            counters == UNION {{l[k].event_order_counter : k \in DOMAIN l} : l \in lists}
            total == Len(e.public_events)
                     + Len(AllPrivateEvents(e, SortedSeq(AgentIds)))
        IN /\ counters = 0 .. (e.event_counter - 1)
           /\ total = e.event_counter
           /\ \A l \in lists : \A j, k \in DOMAIN l :
                  j < k => l[j].event_order_counter < l[k].event_order_counter

\* C8 happens: a legislative session has appended private and public events
C8_Witness ==
    \E i \in Instances :
        /\ \E a, b \in AgentIds : /\ a # b
                                  /\ inst[i].private_events_by_agent[a] # <<>>
                                  /\ inst[i].private_events_by_agent[b] # <<>>
        /\ inst[i].event_counter >= 10

\* C9: the events in the history of an agent A are the public events and the private
\* events of A up to A's cursor and no others; the messages sent for the trainable
\* policy show no private event of another agent; a private event is held for one
\* agent only, the one it names
C9_OnlyOwnPrivateEvents ==
    \A i \in Instances :
        LET e == inst[i] IN
        /\ \A a \in AgentIds :
              LET folded == {e.msg_history[a][k].event :
                                k \in {j \in DOMAIN e.msg_history[a] :
                                          /\ e.msg_history[a][j].history_type = "user-input"
                                          /\ e.msg_history[a][j].kind = "event"}}
                  own == Range(e.public_events) \cup Range(e.private_events_by_agent[a])
              IN folded = {ev \in own :
                              ev.event_order_counter <= e.last_seen_event_counter[a]}
        /\ \A a \in AgentIds : \A k \in DOMAIN e.private_events_by_agent[a] :
              LET ev == e.private_events_by_agent[a][k]
              IN /\ ev.type \in PrivateEventTypes /\ ev.agent_id = a
                 /\ \A b \in AgentIds \ {a} : \A j \in DOMAIN e.private_events_by_agent[b] :
                        e.private_events_by_agent[b][j].event_order_counter
                            # ev.event_order_counter
        /\ \A k \in DOMAIN e.public_events : e.public_events[k].type \notin PrivateEventTypes
        /\ \A msg \in Range(e.output_queue) : \A k \in DOMAIN msg.messages :
              /\ msg.messages[k].role = "user"
              /\ msg.messages[k].content.kind = "event"
              /\ msg.messages[k].content.event.type \in PrivateEventTypes
              => msg.messages[k].content.event.agent_id = e.policy_agent_id

\* C9 happens: the policy is sent a request whose messages hold its own private
\* event, folded after another agent got a private event of its own
C9_Witness ==
    \E i \in Instances :
        LET e == inst[i] IN
        /\ e.output_queue # <<>>
        /\ \E k \in DOMAIN e.output_queue[1].messages :
              /\ e.output_queue[1].messages[k].role = "user"
              /\ e.output_queue[1].messages[k].content.kind = "event"
              /\ e.output_queue[1].messages[k].content.event.type \in PrivateEventTypes
        /\ \E b \in AgentIds \ {e.policy_agent_id} :
              \E j \in DOMAIN e.private_events_by_agent[b] :
                 e.private_events_by_agent[b][j].event_order_counter
                     < e.last_seen_event_counter[e.policy_agent_id]

MaxToolRounds == 2

ToolsMenu ==
    [max_rounds |-> MaxToolRounds, max_speeches |-> 0,
     trainable_slots |-> {4},
     targets |-> {<<2, 1>>},
     decks |-> {<<3, 1>>},
     forced |-> {FALSE},
     rotations |-> {<<4, 0, 1, 2, 3>>, <<0, 4, 1, 2, 3>>},
     master_slots |-> {0}, impostor_slots |-> {1},
     nominees |-> {1, 4},
     talkers |-> {}, talk_slots |-> {}, always_no |-> {1, 2}, no_voters |-> {4},
     failing |-> {0}, failing_tools |-> {"president-pick-chancellor"},
     card_indices |-> {0, 1, 2}, opponent_card_indices |-> {0},
     policy_nominees |-> AgentIds, policy_targets |-> {},
     policy_card_indices |-> {0 - 1, 3},
     other_tools |-> {"chancellor-play-policy", "choose-agent-to-vote-out"},
     bad_outputs |-> {"unknown_tool"}]

NextTools == NextOf(ToolsMenu, {"g1"}, {1})

SpecTools == Init /\ [][NextTools]_vars

(***************************************************************************)
(* Claims about the answers the orchestrator acts on                       *)
(***************************************************************************)
\* C11: every answer of the trainer that the orchestrator acts on names the tool that
\* was requested; an answer naming another tool is rejected
C11_ActedToolIsRequestedTool ==
    \A i \in Instances : \A k \in DOMAIN inst[i].decisions :
        LET d == inst[i].decisions[k]
        IN ~d.raised => d.tool.tool_type = d.req.name

\* C12: every nomination acted on names an agent of the eligible set of its request
\* (not the captain, not the current first mate), every discard index acted on is in
\* 0..2 and every play index acted on is in 0..1
C12_ActedArgumentsAreInSchema ==
    \A i \in Instances : \A k \in DOMAIN inst[i].decisions :
        LET d == inst[i].decisions[k]
        IN ~d.raised =>
              /\ d.pc = "nominate" => d.tool.agent_id \in d.req.openai_schema.enum
              /\ d.pc = "discard" => d.tool.card_index \in {0, 1, 2}
              /\ d.pc = "play" => d.tool.card_index \in {0, 1}

(***************************************************************************)
(* The bounded specification of one game whose votes pass, played to its   *)
(* end, with the MasterImpostor among the nominees                         *)
(***************************************************************************)
MaxWinRounds == 2

WinMenu ==
    [max_rounds |-> MaxWinRounds, max_speeches |-> 0,
     trainable_slots |-> {4},
     targets |-> {<<2, 1>>, <<3, 2>>},
     decks |-> {<<3, 1>>},
     forced |-> {FALSE},
     rotations |-> {<<4, 1, 2, 3, 0>>},
     master_slots |-> {0}, impostor_slots |-> {1, 4},
     nominees |-> {0, 1},
     talkers |-> {}, talk_slots |-> {}, always_no |-> {}, no_voters |-> {4},
     failing |-> {1}, failing_tools |-> {"president-pick-chancellor"},
     card_indices |-> {0, 1, 2}, opponent_card_indices |-> {0, 1},
     policy_nominees |-> {}, policy_targets |-> {}, policy_card_indices |-> {},
     other_tools |-> {}, bad_outputs |-> {}]

NextWin == NextOf(WinMenu, {"g1"}, {1})

SpecWin == Init /\ [][NextWin]_vars

(***************************************************************************)
(* Claims about the end of the game                                        *)
(***************************************************************************)
\* C13: the orchestrator returns with the terminal state of the game-over test only
\* when a track has reached its target or the sabotage track has reached the
\* promotion threshold with the MasterImpostor as current first mate; a round starts
\* (a nomination is requested) only when none of these holds; and a game that
\* returns with the promotion condition true ends with winning_team impostor
C13_TerminalExactlyAtGameOver ==
    \A i \in Instances :
        LET e == inst[i]
            promoted == /\ e.sabotage_progress >= e.promotion_threshold
                        /\ e.current_chancellor_id \in AgentIds
                        /\ e.role[e.current_chancellor_id] = "MASTER_IMPOSTOR"
            over == \/ e.security_progress >= e.security_track_target
                    \/ e.sabotage_progress >= e.sabotage_track_target
                    \/ promoted
        IN /\ e.exit_kind = "returned" =>
                 /\ over
                 /\ e.out_log[Len(e.out_log)].kind = "ModelInput"
                 /\ e.out_log[Len(e.out_log)].terminal
           /\ e.pc = "nominate" => ~over
           /\ e.exit_kind = "returned" /\ promoted =>
                 e.out_log[Len(e.out_log)].winning_team = "impostor"

\* C13 happens: the MasterImpostor was seated by a passed vote with the sabotage
\* track at the threshold, and the game ended for the Impostor team with the
\* sabotage track below its target
C13_Witness ==
    \E i \in Instances :
        LET e == inst[i] IN
        /\ e.exit_kind = "returned"
        /\ e.current_chancellor_id \in AgentIds
        /\ e.role[e.current_chancellor_id] = "MASTER_IMPOSTOR"
        /\ e.seated_at_sabotage >= e.promotion_threshold
        /\ e.sabotage_progress < e.sabotage_track_target
        /\ e.security_progress < e.security_track_target
        /\ e.out_log[Len(e.out_log)].winning_team = "impostor"

\* C14: in the terminal state of the game-over test the winners are the whole winning
\* team (MasterImpostor and Impostor on a sabotage or promotion victory, the three
\* Crewmates on a security victory), winning_team names it, and the reward is 1 when
\* the trainable policy is a winner and 0 otherwise
C14_WinnersAreTheWinningTeam ==
    \A i \in Instances :
        LET e == inst[i]
            last == e.out_log[Len(e.out_log)]
            impostors_win == \/ e.sabotage_progress >= e.sabotage_track_target
                             \/ /\ e.sabotage_progress >= e.promotion_threshold
                                /\ e.current_chancellor_id \in AgentIds
                                /\ e.role[e.current_chancellor_id] = "MASTER_IMPOSTOR"
            team == IF impostors_win
                    THEN {a \in AgentIds : e.role[a] \in {"MASTER_IMPOSTOR", "IMPOSTOR"}}
                    ELSE {a \in AgentIds : e.role[a] = "CREWMATE"}
        IN e.exit_kind = "returned" =>
              /\ Range(last.winners) = team /\ Len(last.winners) = Cardinality(team)
              /\ Cardinality(team) = IF impostors_win THEN 2 ELSE 3
              /\ ~impostors_win => e.security_progress >= e.security_track_target
              /\ last.winning_team = IF impostors_win THEN "impostor" ELSE "crewmate"
              /\ last.reward = IF e.policy_agent_id \in team THEN 1 ELSE 0

\* C14 happens: a game has ended with the trainable policy among the winners
C14_Witness ==
    \E i \in Instances :
        /\ inst[i].exit_kind = "returned"
        /\ inst[i].out_log[Len(inst[i].out_log)].reward = 1
        /\ inst[i].out_log[Len(inst[i].out_log)].winning_team = "impostor"
        /\ inst[i].sabotage_progress >= inst[i].sabotage_track_target

\* C15: a game that reaches its terminal state with the security track at its target
\* ends with winning_team crewmate and the three Crewmates as winners
C15_SecurityTargetMeansCrewmatesWin ==
    \A i \in Instances :
        LET e == inst[i] IN
        e.exit_kind = "returned" /\ e.security_progress = e.security_track_target =>
            /\ e.out_log[Len(e.out_log)].winning_team = "crewmate"
            /\ Range(e.out_log[Len(e.out_log)].winners)
                   = {a \in AgentIds : e.role[a] = "CREWMATE"}

\* C16: a game ends for the Impostor team with the sabotage track below its target
\* only if the MasterImpostor was seated as first mate by a passed vote held when
\* the sabotage track had already reached the promotion threshold
C16_PromotionOnlyIfSeatedAtThreshold ==
    \A i \in Instances :
        LET e == inst[i] IN
        /\ e.exit_kind = "returned"
        /\ e.out_log[Len(e.out_log)].winning_team = "impostor"
        /\ e.sabotage_progress < e.sabotage_track_target
        => /\ e.current_chancellor_id \in AgentIds
           /\ e.role[e.current_chancellor_id] = "MASTER_IMPOSTOR"
           /\ e.seated_at_sabotage >= e.promotion_threshold

(***************************************************************************)
(* A specification of games of up to MaxVoteRounds rounds without          *)
(* speeches, in which the policy's vote decides every election: agents 1   *)
(* and 2 vote no, agents 0 and 3 vote yes.                                 *)
(***************************************************************************)
MaxVoteRounds == 7

VoteMenu ==
    [max_rounds |-> MaxVoteRounds, max_speeches |-> 0, trainable_slots |-> {4},
     targets |-> {<<3, 2>>}, decks |-> {<<3, 1>>}, forced |-> {FALSE},
     rotations |-> {<<2, 4, 0, 3, 1>>, <<4, 1, 2, 3, 0>>}, master_slots |-> {0},
     impostor_slots |-> {1}, nominees |-> {3}, talkers |-> {}, talk_slots |-> {},
     always_no |-> {1, 2}, no_voters |-> {4},
     failing |-> {2}, failing_tools |-> {"president-pick-chancellor"},
     card_indices |-> {0}, opponent_card_indices |-> {0},
     policy_nominees |-> {}, policy_targets |-> {}, policy_card_indices |-> {},
     other_tools |-> {}, bad_outputs |-> {}]

NextVote == NextOf(VoteMenu, {"g1"}, {1})

SpecVote == Init /\ [][NextVote]_vars

\* C17: a vote with fewer than three yes votes adds one to failed_election_tracker and
\* seats nobody, draws no hand and appends no private event; when the tracker reaches
\* three, one card leaves the deck, is recorded as a public ChancellorPlayPolicy event
\* without an actor and is counted on its track, and the tracker is 0 again; in both
\* cases the captain advances by one and the next round (or the terminal state)
\* follows.  A passed vote sets the tracker to 0.  The tracker is 0, 1 or 2 whenever
\* the orchestrator waits, and after a failed vote no private event is younger than
\* the round's nomination.
C17_FailedVoteTracker ==
    [][\A i \in Instances :
        LET e == inst[i]
            n == inst'[i]
            collected == /\ e.pc \in {"vote_gather", "vote_policy"}
                         /\ n.pc \notin {"vote_gather", "vote_policy"}
                         /\ n.exit_kind # "exception"
            yes == Cardinality({a \in AgentIds : n.ai_tools[a].choice})
            k == e.failed_election_tracker + 1
            last == n.public_events[Len(n.public_events)]
        IN /\ n.failed_election_tracker \in 0 .. 2
           /\ collected /\ yes >= 3 => n.failed_election_tracker = 0
           /\ collected /\ yes < 3 =>
                 /\ n.current_chancellor_id = e.current_chancellor_id
                 /\ n.private_events_by_agent = e.private_events_by_agent
                 /\ \A a \in AgentIds : \A j \in DOMAIN n.private_events_by_agent[a] :
                       \E p \in DOMAIN e.public_events :
                          /\ e.public_events[p].type = "PresidentPickChancellorEventPublic"
                          /\ n.private_events_by_agent[a][j].event_order_counter
                                < e.public_events[p].event_order_counter
                          /\ \A q \in DOMAIN e.public_events :
                                e.public_events[q].type = "PresidentPickChancellorEventPublic"
                                => q <= p
                 /\ n.cards_with_ids = NoCards
                 /\ n.current_president_idx = (e.current_president_idx + 1) % 5
                 /\ n.pc \in {"nominate", "done"}
                 /\ k < 3 =>
                       /\ n.failed_election_tracker = k
                       /\ n.deck = e.deck
                       /\ n.sabotage_progress = e.sabotage_progress
                       /\ n.security_progress = e.security_progress
                       /\ Len(n.public_events) = Len(e.public_events) + 5
                 /\ k >= 3 =>
                       /\ n.failed_election_tracker = 0
                       /\ PileSize(n.deck.cards) + PileSize(n.deck.discard_pile)
                             = PileSize(e.deck.cards) + PileSize(e.deck.discard_pile) - 1
                       /\ Len(n.public_events) = Len(e.public_events) + 6
                       /\ last.type = "ChancellorPlayPolicyEventPublic"
                       /\ last.agent_id = None
                       /\ last.card \in {SABOTAGE, SECURITY}
                       /\ n.sabotage_progress =
                             e.sabotage_progress + (IF last.card = SABOTAGE THEN 1 ELSE 0)
                       /\ n.security_progress =
                             e.security_progress + (IF last.card = SECURITY THEN 1 ELSE 0)
    ]_vars

\* a third failed vote in a row has resolved a card, and the game goes on with the
\* tracker at 0
C17_Witness ==
    \E i \in Instances :
        LET e == inst[i] IN
        /\ e.pc = "nominate"
        /\ e.failed_election_tracker = 0
        /\ e.public_events # <<>>
        /\ \E k \in DOMAIN e.public_events :
              /\ e.public_events[k].type = "ChancellorPlayPolicyEventPublic"
              /\ e.public_events[k].agent_id = None
              /\ k = Len(e.public_events)

\* C18: when the five votes of an election are in, the nominee becomes the current
\* first mate and the captain is handed three cards exactly if three or more of the
\* five Vote events say yes; with two or fewer the current first mate stays who it
\* was, no hand is drawn and the next round (or the terminal state) follows.
C18_PassIffThreeOfFive ==
    [][\A i \in Instances :
        LET e == inst[i]
            n == inst'[i]
            collected == /\ e.pc \in {"vote_gather", "vote_policy"}
                         /\ n.pc \notin {"vote_gather", "vote_policy"}
                         /\ n.exit_kind # "exception"
            first == Len(e.public_events) + 1
            ballots == first .. (first + 4)
            yes == Cardinality({k \in ballots : n.public_events[k].vote})
        IN collected =>
              /\ Len(n.public_events) >= first + 4
              /\ \A k \in ballots :
                    /\ n.public_events[k].type = "VoteChancellorYesNoEventPublic"
                    /\ n.public_events[k].agent_id = k - first
                    /\ n.public_events[k].other_id = e.chancellor_id
              /\ yes >= 3 =>
                    /\ n.current_chancellor_id = e.chancellor_id
                    /\ n.pc = "discard"
                    /\ n.awaiting = President(e)
                    /\ Len(n.cards_with_ids) = 3
              /\ yes < 3 =>
                    /\ n.current_chancellor_id = e.current_chancellor_id
                    /\ n.cards_with_ids = NoCards
                    /\ n.pc \in {"nominate", "done"}
    ]_vars

\* an election has passed with exactly three yes votes: the nominee is seated and the
\* captain holds the hand
C18_Witness ==
    \E i \in Instances :
        LET e == inst[i]
            len == Len(e.public_events)
        IN /\ e.pc = "discard"
           /\ len >= 5
           /\ \A k \in (len - 4) .. len :
                 e.public_events[k].type = "VoteChancellorYesNoEventPublic"
           /\ Cardinality({k \in (len - 4) .. len : e.public_events[k].vote}) = 3
           /\ e.current_chancellor_id = e.chancellor_id
           /\ e.round >= 2

\* C19: in round r (counted from 1) current_president_idx is (r - 1) mod 5, and r mod 5
\* once the game has returned after r rounds: every round, with or without a passed
\* vote, moves the chair by exactly one place.  The captain who makes the k-th
\* nomination of the game is the ((k - 1) mod 5)-th entry of president_rotation, and
\* any five nominations in a row are made by the five agents, one each.
C19_CaptainAdvancesOncePerRound ==
    \A i \in Instances :
        LET e == inst[i]
            IsNomination(ev) == ev.type = "PresidentPickChancellorEventPublic"
            noms == SelectSeq(e.public_events, IsNomination)
        IN e.pc \notin {"none", "start"} =>
              /\ e.current_president_idx =
                    IF e.exit_kind = "returned" THEN e.round % 5 ELSE (e.round - 1) % 5
              /\ Len(noms) \in {e.round - 1, e.round}
              /\ e.pc \notin {"nominate", "done"} => Len(noms) = e.round
              /\ \A k \in DOMAIN noms :
                    noms[k].agent_id = e.president_rotation[((k - 1) % 5) + 1]
              /\ \A k \in 1 .. (Len(noms) - 4) :
                    {noms[j].agent_id : j \in k .. (k + 4)} = AgentIds

\* a sixth nomination is made in a game that has had rounds with a failed vote and a
\* round with a legislative session
C19_Witness ==
    \E i \in Instances :
        LET e == inst[i]
            IsNomination(ev) == ev.type = "PresidentPickChancellorEventPublic"
        IN /\ Len(SelectSeq(e.public_events, IsNomination)) >= 6
           /\ e.current_president_idx = 0
           /\ \E k \in DOMAIN e.public_events :
                 /\ e.public_events[k].type = "ChancellorPlayPolicyEventPublic"
                 /\ e.public_events[k].agent_id # None
           /\ \E k \in DOMAIN e.public_events :
                 /\ e.public_events[k].type = "ChancellorPlayPolicyEventPublic"
                 /\ e.public_events[k].agent_id = None

(***************************************************************************)
(* A specification of games of up to MaxTalkRounds rounds with up to       *)
(* MaxTalkSpeeches speeches, made by agent 3 or by the policy, in which    *)
(* the vote of agent 0 can fail inside the gather.                         *)
(***************************************************************************)
MaxTalkRounds == 2
MaxTalkSpeeches == 1

TalkMenu ==
    [max_rounds |-> MaxTalkRounds, max_speeches |-> MaxTalkSpeeches,
     trainable_slots |-> {4}, targets |-> {<<2, 1>>}, decks |-> {<<3, 1>>},
     forced |-> {FALSE}, rotations |-> {<<0, 4, 1, 2, 3>>}, master_slots |-> {0},
     impostor_slots |-> {1}, nominees |-> {1}, talkers |-> {3, 4},
     talk_slots |-> {<<1, 1>>, <<2, 1>>},
     always_no |-> {1, 2}, no_voters |-> {4},
     failing |-> {0}, failing_tools |-> {"vote-chancellor-yes-no"},
     card_indices |-> {0}, opponent_card_indices |-> {0},
     policy_nominees |-> {}, policy_targets |-> {0}, policy_card_indices |-> {},
     other_tools |-> {}, bad_outputs |-> {}]

NextTalk == NextOf(TalkMenu, {"g1"}, {1})

SpecTalk == Init /\ [][NextTalk]_vars

\* C20: from the start of the queries of a discourse or of a vote until the last of
\* the five decisions is in, no public or private event is appended and event_counter
\* stands still; every agent that has been asked has all events visible to it in its
\* history; and a history grows only by its owner's own decision with its feedback
\* (when that agent answers) or, for the policy, by the user inputs of its request
\* (when the gather has returned): no history receives the decision of another agent.
C20_DecisionsAgainstOneSnapshot ==
    [][\A i \in Instances :
        LET e == inst[i]
            n == inst'[i]
            Disc == {"disc_gather", "disc_policy"}
            Vote == {"vote_gather", "vote_policy"}
            within == \/ e.pc \in Disc /\ n.pc \in Disc
                      \/ e.pc \in Vote /\ n.pc \in Vote
            asked == {a \in AgentIds :
                         a # n.policy_agent_id \/ n.pc \in {"disc_policy", "vote_policy"}}
            Saw(a, ev) ==
                \E k \in DOMAIN n.msg_history[a] :
                   /\ n.msg_history[a][k].history_type = "user-input"
                   /\ n.msg_history[a][k].event = ev
            grown(a) == SubSeq(n.msg_history[a], Len(e.msg_history[a]) + 1,
                               Len(n.msg_history[a]))
        IN within =>
              /\ n.public_events = e.public_events
              /\ n.private_events_by_agent = e.private_events_by_agent
              /\ n.event_counter = e.event_counter
              /\ \A a \in asked :
                    /\ \A k \in DOMAIN n.public_events : Saw(a, n.public_events[k])
                    /\ \A k \in DOMAIN n.private_events_by_agent[a] :
                          Saw(a, n.private_events_by_agent[a][k])
              /\ \A a \in AgentIds :
                    n.msg_history[a] # e.msg_history[a] =>
                       /\ Len(n.msg_history[a]) > Len(e.msg_history[a])
                       /\ SubSeq(n.msg_history[a], 1, Len(e.msg_history[a]))
                             = e.msg_history[a]
                       /\ \A b \in AgentIds \ {a} : n.msg_history[b] = e.msg_history[b]
                       /\ \/ /\ a \in e.pending /\ n.pending = e.pending \ {a}
                             /\ Len(grown(a)) = 2
                             /\ grown(a)[1].history_type = "assistant-response"
                             /\ grown(a)[1].hydrated_tool_calls = <<n.ai_tools[a]>>
                             /\ grown(a)[2].history_type = "tool-feedback"
                          \/ /\ a = e.policy_agent_id
                             /\ e.pc \in {"disc_gather", "vote_gather"}
                             /\ n.pc \in {"disc_policy", "vote_policy"}
                             /\ \A k \in DOMAIN grown(a) :
                                   grown(a)[k].history_type = "user-input"
    ]_vars

\* in a discourse an opponent has decided to speak while another opponent's decision
\* is still out, and the policy has not been asked yet
C20_Witness ==
    \E i \in Instances :
        LET e == inst[i] IN
        /\ e.pc = "disc_gather"
        /\ \E a \in AgentIds \ e.pending :
              /\ a # e.policy_agent_id
              /\ e.ai_tools[a].tool_type = "ask-agent-if-wants-to-speak"
              /\ Truthy(e.ai_tools[a].question_or_statement)
        /\ e.pending # {}
        /\ e.public_events # <<>>


(***************************************************************************)
(* A specification of games of up to MaxOrderRounds rounds in which the    *)
(* trainable policy sits in slot 0, 2 or 4, agents 2 and 3 vote either way *)
(* and agents 1 and 3 may speak in the first discourse.                    *)
(***************************************************************************)
MaxOrderRounds == 1
MaxOrderSpeeches == 1

OrderMenu ==
    [max_rounds |-> MaxOrderRounds, max_speeches |-> MaxOrderSpeeches,
     trainable_slots |-> {0, 2, 4}, targets |-> {<<2, 1>>}, decks |-> {<<3, 1>>},
     forced |-> {FALSE}, rotations |-> {<<1, 0, 2, 3, 4>>}, master_slots |-> {0},
     impostor_slots |-> {1}, nominees |-> {3}, talkers |-> {1, 3},
     talk_slots |-> {<<1, 1>>},
     always_no |-> {}, no_voters |-> {2, 3},
     failing |-> {1}, failing_tools |-> {"president-pick-chancellor"},
     card_indices |-> {0}, opponent_card_indices |-> {0},
     policy_nominees |-> {}, policy_targets |-> {}, policy_card_indices |-> {},
     other_tools |-> {}, bad_outputs |-> {}]

NextOrder == NextOf(OrderMenu, {"g1"}, {1})

SpecOrder == Init /\ [][NextOrder]_vars

\* C21: the step that collects the last decision of a vote appends five Vote events,
\* for agents 0 to 4 in this order with counters event_counter to event_counter + 4,
\* and the event of agent a carries the choice of the last vote decision in a's own
\* history; every speech event appended in a discourse names an agent whose last
\* decision to the speak request, in its own history, was that speech.
C21_EventsCarryTheirAgentsDecision ==
    [][\A i \in Instances :
        LET e == inst[i]
            n == inst'[i]
            LastDecision(a, tool_type) ==
                LET h == n.msg_history[a]
                    at == {k \in DOMAIN h :
                              /\ h[k].history_type = "assistant-response"
                              /\ h[k].tool_calls = <<tool_type>>}
                    last == CHOOSE k \in at : \A j \in at : j <= k
                IN IF at = {} THEN NoTool ELSE h[last].hydrated_tool_calls[1]
            first == Len(e.public_events) + 1
            added == first .. Len(n.public_events)
            vote_collected == /\ e.pc \in {"vote_gather", "vote_policy"}
                              /\ n.pc \notin {"vote_gather", "vote_policy"}
                              /\ n.exit_kind # "exception"
        IN /\ vote_collected =>
                 /\ Len(n.public_events) >= first + 4
                 /\ \A a \in AgentIds :
                       LET ev == n.public_events[first + a]
                       IN /\ ev.type = "VoteChancellorYesNoEventPublic"
                          /\ ev.agent_id = a
                          /\ ev.event_order_counter = e.event_counter + a
                          /\ ev.vote = LastDecision(a, "vote-chancellor-yes-no").choice
                 /\ \A k \in added :
                       n.public_events[k].type = "VoteChancellorYesNoEventPublic"
                       => k <= first + 4
           /\ \A k \in added :
                 n.public_events[k].type = "AskAgentIfWantsToSpeakEventPublic" =>
                    LET ev == n.public_events[k]
                        tool == LastDecision(ev.agent_id, "ask-agent-if-wants-to-speak")
                    IN /\ Truthy(tool.question_or_statement)
                       /\ tool.ask_directed_question_to_agent_id = ev.other_id
    ]_vars

\* a vote has been collected in which the trainable policy, in slot 2, has voted
\* otherwise than both of its neighbours in the agent order
C21_Witness ==
    \E i \in Instances :
        LET e == inst[i]
            len == Len(e.public_events)
        IN /\ e.policy_agent_id = 2
           /\ len >= 5
           /\ \A k \in (len - 4) .. len :
                 e.public_events[k].type = "VoteChancellorYesNoEventPublic"
           /\ e.public_events[len - 2].agent_id = 2
           /\ e.public_events[len - 2].vote # e.public_events[len - 1].vote
           /\ e.public_events[len - 2].vote # e.public_events[len - 3].vote


(***************************************************************************)
(* A specification of games of up to MaxSpeakRounds rounds in which agents *)
(* 1 and 3 and the policy may speak in the first discourse, the policy     *)
(* also with a question to agent 0 or to an agent that does not exist.     *)
(***************************************************************************)
MaxSpeakRounds == 1
MaxSpeakSpeeches == 3

SpeakMenu ==
    [max_rounds |-> MaxSpeakRounds, max_speeches |-> MaxSpeakSpeeches,
     trainable_slots |-> {4}, targets |-> {<<2, 1>>}, decks |-> {<<3, 1>>},
     forced |-> {FALSE}, rotations |-> {<<1, 0, 2, 3, 4>>}, master_slots |-> {0},
     impostor_slots |-> {1}, nominees |-> {3}, talkers |-> {1, 3, 4},
     talk_slots |-> {<<1, 1>>},
     always_no |-> {1, 2}, no_voters |-> {4},
     failing |-> {1}, failing_tools |-> {"president-pick-chancellor"},
     card_indices |-> {0}, opponent_card_indices |-> {0},
     policy_nominees |-> {}, policy_targets |-> {0} \cup UnknownAgentIds,
     policy_card_indices |-> {}, other_tools |-> {}, bad_outputs |-> {}]

NextSpeak == NextOf(SpeakMenu, {"g1"}, {1})

SpecSpeak == Init /\ [][NextSpeak]_vars

\* C22: when a discourse ends, the speech events it has appended name each agent
\* whose decision was to speak exactly once and no other agent; and at all times a
\* speech event with a target is either the last public event or is followed at once
\* by the answer event of that target to that speaker, with the next counter.
C22_SpeechesAndAnswers ==
    [][\A i \in Instances :
        LET e == inst[i]
            n == inst'[i]
            pub == n.public_events
            Talk == {"AskAgentIfWantsToSpeakEventPublic",
                     "AgentResponseToQuestioningEventPublic"}
            InPhase == {"disc_gather", "disc_policy", "disc_answer"}
            ended == /\ e.pc \in InPhase
                     /\ n.pc \notin InPhase
                     /\ n.pc # "done" \/ n.exit_kind = "returned"
            start == CHOOSE k \in 0 .. Len(pub) :
                        /\ \A j \in (k + 1) .. Len(pub) : pub[j].type \in Talk
                        /\ k > 0 => pub[k].type \notin Talk
            speeches == {k \in (start + 1) .. Len(pub) :
                            pub[k].type = "AskAgentIfWantsToSpeakEventPublic"}
            Chose(a) ==
                LET h == n.msg_history[a]
                    at == {k \in DOMAIN h :
                              /\ h[k].history_type = "assistant-response"
                              /\ h[k].tool_calls = <<"ask-agent-if-wants-to-speak">>}
                    last == CHOOSE k \in at : \A j \in at : j <= k
                IN at # {} /\ Truthy(h[last].hydrated_tool_calls[1].question_or_statement)
        IN /\ ended =>
                 /\ \A a \in AgentIds :
                       Cardinality({k \in speeches : pub[k].agent_id = a})
                          = IF Chose(a) THEN 1 ELSE 0
                 /\ \A k \in speeches : pub[k].agent_id \in AgentIds
           /\ \A k \in DOMAIN pub :
                 pub[k].type = "AskAgentIfWantsToSpeakEventPublic" /\ pub[k].other_id # None
                 => \/ /\ k = Len(pub)
                       /\ \/ n.pc = "disc_answer" /\ n.awaiting = pub[k].other_id
                          \/ n.pc = "done" /\ n.exit_kind # "returned"
                    \/ /\ k < Len(pub)
                       /\ pub[k + 1].type = "AgentResponseToQuestioningEventPublic"
                       /\ pub[k + 1].agent_id = pub[k].other_id
                       /\ pub[k + 1].other_id = pub[k].agent_id
                       /\ pub[k + 1].event_order_counter = pub[k].event_order_counter + 1
    ]_vars

\* a discourse in which three agents have spoken, not in agent order: agent 3, then
\* the policy with a question to agent 0, the answer of agent 0, then agent 1
C22_Witness ==
    \E i \in Instances :
        LET pub == inst[i].public_events IN
        \E k \in DOMAIN pub :
           /\ k + 3 <= Len(pub)
           /\ pub[k].type = "AskAgentIfWantsToSpeakEventPublic" /\ pub[k].agent_id = 3
           /\ pub[k + 1].type = "AskAgentIfWantsToSpeakEventPublic"
           /\ pub[k + 1].agent_id = 4 /\ pub[k + 1].other_id = 0
           /\ pub[k + 2].type = "AgentResponseToQuestioningEventPublic"
           /\ pub[k + 2].agent_id = 0
           /\ pub[k + 3].type = "AskAgentIfWantsToSpeakEventPublic"
           /\ pub[k + 3].agent_id = 1
           /\ inst[i].pc \in {"vote_gather", "vote_policy"}


(***************************************************************************)
(* The registry with two games.  Besides the rollout loop, a caller may    *)
(* call execute for a game_id that was never created or whose game is      *)
(* over, and may cancel the orchestrator task of a game (task.cancel()).   *)
(***************************************************************************)
\* a variant of the lookup of execute that makes the missing entry instead of
\* raising (dict.setdefault), puts the ModelOutput and waits
ExecuteNotFound_MakesEntry(g) ==
    /\ caller[g].pc \in {"idle", "finished", "failed"}
    /\ games[g] = None
    /\ \E i \in Instances :
          /\ inst[i].pc = "none"
          /\ games' = [games EXCEPT ![g] = i]
          /\ caller' = [caller EXCEPT ![g] = [@ EXCEPT !.pc = "execute_wait", !.inst = i]]
    /\ UNCHANGED <<inst, engines, tasks>>

\* EngineAPI.execute, lines 67-68, called outside the rollout loop: before create, or
\* after the game has ended; ValueError("Game ... not found") goes to the caller
ExecuteNotFound(g) ==
    /\ caller[g].pc \in {"idle", "finished", "failed"}
    /\ games[g] = None
    /\ caller' = [caller EXCEPT ![g] = [@ EXCEPT !.error = "ValueError"]]
    /\ UNCHANGED <<inst, games, engines, tasks>>

\* tasks[game_id].cancel(): CancelledError is thrown into _run_engine at the await it
\* is suspended at (the children of a gather are cancelled with it).  CancelledError
\* is a BaseException, so neither except clause of lines 91-105 runs and nothing is
\* put on the output queue; "finally" deletes the entries.  A task that has not
\* started yet never enters the try statement: its entries stay.
Cancel(g) ==
    /\ tasks[g] # None
    /\ inst[tasks[g]].pc # "done"
    /\ LET i == tasks[g]
           started == inst[i].pc # "start"
       IN /\ inst' = [inst EXCEPT ![i] = [@ EXCEPT !.pc = "done", !.exit_kind = "cancelled",
                                                   !.awaiting = None, !.pending = {}]]
          /\ games' = IF started THEN [games EXCEPT ![inst[i].game_id] = None] ELSE games
          /\ engines' = IF started THEN [engines EXCEPT ![inst[i].game_id] = None]
                        ELSE engines
          /\ tasks' = IF started THEN [tasks EXCEPT ![inst[i].game_id] = None] ELSE tasks
    /\ UNCHANGED caller

MaxApiRounds == 1
MaxApiSpeeches == 1

ApiMenu ==
    [max_rounds |-> MaxApiRounds, max_speeches |-> MaxApiSpeeches,
     trainable_slots |-> {4}, targets |-> {<<1, 1>>}, decks |-> {<<3, 0>>},
     forced |-> {FALSE}, rotations |-> {<<4, 0, 1, 2, 3>>}, master_slots |-> {0},
     impostor_slots |-> {1}, nominees |-> {0}, talkers |-> {},
     talk_slots |-> {<<1, 1>>},
     always_no |-> {}, no_voters |-> {},
     failing |-> {0}, failing_tools |-> {"chancellor-play-policy"},
     card_indices |-> {0}, opponent_card_indices |-> {0},
     policy_nominees |-> {}, policy_targets |-> UnknownAgentIds,
     policy_card_indices |-> {}, other_tools |-> {}, bad_outputs |-> {}]

\* game "g1" is played by the engine made first in the model's numbering and "g2" by
\* the other: which Engine object a create makes does not matter to the registry
NextApi ==
    \/ NextOf(ApiMenu, {"g1"}, {1})
    \/ NextOf(ApiMenu, {"g2"}, {2})
    \/ \E g \in GameIds : ExecuteNotFound(g)
    \/ \E g \in GameIds : Cancel(g)

SpecApi == Init /\ [][NextApi]_vars

\* C23: an execute for a game_id that is not registered (never created, or created
\* and over) ends with the not-found error at once: the registries, every engine and
\* every queue are as before, the other callers are as before, and the caller is not
\* left waiting; and no execute for an unregistered game_id gets as far as putting its
\* ModelOutput and waiting.
C23_ExecuteUnknownGameChangesNothing ==
    [][\A g \in GameIds :
        /\ caller'[g].error = "ValueError" /\ caller[g].error # "ValueError" =>
              /\ games[g] = None
              /\ games' = games /\ engines' = engines /\ tasks' = tasks
              /\ inst' = inst
              /\ \A h \in GameIds \ {g} : caller'[h] = caller[h]
              /\ caller'[g].pc \notin {"create_wait", "execute_wait"}
              /\ caller'[g].model_input = caller[g].model_input
        /\ caller'[g].pc = "execute_wait" /\ caller[g].pc # "execute_wait" =>
              /\ games[g] # None
              /\ games' = games
    ]_vars

\* execute has failed with the not-found error for a game that was never created and
\* for a game that has ended with a terminal state, while neither is registered
C23_Witness ==
    \E g, h \in GameIds :
        /\ caller[g].pc = "idle" /\ caller[g].error = "ValueError"
        /\ caller[h].pc = "finished" /\ caller[h].error = "ValueError"
        /\ games[g] = None /\ games[h] = None

\* C24: when create or execute has returned a ModelInput with a terminal state for a
\* game, that game has no entry in games, engines and tasks, its task has ended and
\* its queues are empty; an execute for it therefore finds no entry (and fails as in
\* C23): no ModelOutput is put for it and nobody waits on its output queue.
C24_NoEntryAfterTerminal ==
    \A g \in GameIds :
        caller[g].model_input.kind = "ModelInput"
        /\ ~caller[g].model_input.terminal_state.none =>
           /\ caller[g].pc = "finished"
           /\ games[g] = None /\ engines[g] = None /\ tasks[g] = None
           /\ inst[caller[g].inst].pc = "done"
           /\ inst[caller[g].inst].input_queue = <<>>
           /\ inst[caller[g].inst].output_queue = <<>>

\* both kinds of terminal state have been returned, the one of a game that was played
\* to its end and the one of an unknown agent id, and a later execute has failed for
\* the former
C24_Witness ==
    \E g, h \in GameIds :
        /\ caller[g].pc = "finished" /\ caller[h].pc = "finished"
        /\ inst[caller[g].inst].exit_kind = "returned"
        /\ inst[caller[h].inst].exit_kind = "agent_not_found"
        /\ caller[g].error = "ValueError"

\* C25: when create is over and no execute has been called yet, the caller holds a
\* ModelInput, the first message the orchestrator has put; if the orchestrator has
\* ended with an exception before it ever asked the trainable policy, that message is
\* a terminal ModelInput with reward -1 (create has not raised).
C25_CreateReturnsFirstYieldOrTerminal ==
    \A g \in GameIds :
        caller[g].inst # None /\ caller[g].pc \in {"ready", "finished", "failed"}
        /\ inst[caller[g].inst].n_got = 0 /\ inst[caller[g].inst].input_queue = <<>> =>
           LET e == inst[caller[g].inst]
           IN /\ caller[g].error = ""
              /\ caller[g].model_input.kind = "ModelInput"
              /\ e.exit_kind = "exception" =>
                    /\ caller[g].pc = "finished"
                    /\ ~caller[g].model_input.terminal_state.none
                    /\ caller[g].model_input.terminal_state.reward = 0 - 1


(***************************************************************************)
(* One game whose orchestrator task may be cancelled, with the fairness of *)
(* the event loop: a task that is ready to start starts, the tasks of a    *)
(* gather return, a caller whose queue holds a message receives it, and    *)
(* the rollout loop answers every request.  Create and Cancel are the      *)
(* caller's choice.  The property below speaks of the states after the     *)
(* task has ended, where no step of the task is enabled any more.          *)
(***************************************************************************)
NextCancel ==
    \/ NextOf(ApiMenu, {"g1"}, {1})
    \/ Cancel("g1")

TaskProgress ==
    \/ TaskStart(ApiMenu, 1)
    \/ \E a \in AgentIds : OpponentRespondsInGather(ApiMenu, 1, a)

FairSpecCancel ==
    /\ Init
    /\ [][NextCancel]_vars
    /\ WF_vars(TaskProgress)
    /\ WF_vars(CallerReceives("g1"))
    /\ WF_vars(Execute(ApiMenu, "g1"))

\* C26: once the orchestrator task of the game has been cancelled, a caller that is
\* blocked in execute does not wait for ever: it leaves its wait (with an error).
C26_CancelledGameFreesItsCaller ==
    (inst[1].exit_kind = "cancelled" /\ caller["g1"].pc = "execute_wait")
       ~> (caller["g1"].pc # "execute_wait")

(***************************************************************************)
(* Two games side by side (SpecApi): what one game's end does to the other *)
(***************************************************************************)
\* the engine that plays game g under NextApi
InstOfGame(g) == IF g = "g1" THEN 1 ELSE 2

\* everything the API holds for game g: its registry entries, its Engine with both
\* queues, and its caller
Footprint(g) == <<games[g], engines[g], tasks[g], inst[InstOfGame(g)], caller[g]>>

\* C27: games with different ids are independent.  A step in which the task of one
\* game ends (it returns, fails or is cancelled) leaves the registry entries, the
\* queues, the engine state and the caller of every other game unchanged; a message a
\* caller receives is the head of its own game's output queue, and a ModelOutput
\* that is put goes on the input queue of the caller's own game and on no other.
C27_GamesAreIndependent ==
    [][\A g \in GameIds :
          LET i == InstOfGame(g) IN
          /\ (inst[i].pc # "done" /\ inst'[i].pc = "done") =>
                \A h \in GameIds \ {g} : Footprint(h)' = Footprint(h)
          /\ caller'[g].model_input # caller[g].model_input =>
                /\ inst[i].game_id = g
                /\ inst[i].output_queue # <<>>
                /\ caller'[g].model_input = Head(inst[i].output_queue)
                /\ \A h \in GameIds \ {g} : Footprint(h)' = Footprint(h)
          /\ inst'[i].input_queue # inst[i].input_queue /\ Len(inst'[i].input_queue) > Len(inst[i].input_queue) =>
                /\ inst[i].game_id = g
                /\ inst'[i].input_queue = Append(inst[i].input_queue, caller'[g].model_output)
                /\ \A h \in GameIds \ {g} : inst'[InstOfGame(h)] = inst[InstOfGame(h)]
      ]_vars

\* game g1 was cancelled while game g2 waits for the answer to an execute, still
\* registered, and g2 has received messages of its own
C27_Witness ==
    /\ inst[1].exit_kind = "cancelled"
    /\ games["g1"] = None
    /\ games["g2"] = 2 /\ engines["g2"] = 2 /\ tasks["g2"] = 2
    /\ caller["g2"].pc = "execute_wait"
    /\ inst[2].input_queue # <<>>

(***************************************************************************)
(* Deck.draw on its own: a deck with any two piles up to MaxPile cards of  *)
(* each kind, draw called with any count up to MaxDraw and followed one    *)
(* iteration of its loop at a time; cards drawn can go to the discard pile *)
(***************************************************************************)
MaxPile == 2
MaxDraw == 3

Piles == [sab : 0 .. MaxPile, sec : 0 .. MaxPile]

InitDeck ==
    /\ \E c \in Piles, d \in Piles :
          inst = [i \in Instances |->
                    IF i = 1 THEN [FreshInstance EXCEPT !.pc = "deck",
                                                        !.deck = [cards |-> c, discard_pile |-> d]]
                    ELSE FreshInstance]
    /\ games = [g \in GameIds |-> None]
    /\ engines = [g \in GameIds |-> None]
    /\ tasks = [g \in GameIds |-> None]
    /\ caller = [g \in GameIds |-> IdleCaller]

\* draw(count) is called, line 15; with count = 0 the loop body never runs
DrawCall(i, count) ==
    /\ inst[i].pc = "deck"
    /\ inst[i].draw_call.status \in {"none", "returned"}
    /\ inst' = [inst EXCEPT ![i].draw_call =
                    [status |-> IF count = 0 THEN "returned" ELSE "running",
                     count |-> count, left |-> count, drawn_cards |-> <<>>,
                     before |-> inst[i].deck, drawn_before_reshuffle |-> None]]
    /\ UNCHANGED <<games, engines, tasks, caller>>

\* one iteration of the loop, lines 17-21: _reshuffle_discard if the draw pile is
\* empty (ValueError if the discard pile is empty too), then cards.pop()
DrawStep(i) ==
    LET e == inst[i]
        c == e.draw_call
        empty == PileSize(e.deck.cards) = 0
    IN
    /\ e.pc = "deck"
    /\ c.status = "running"
    /\ IF empty /\ PileSize(e.deck.discard_pile) = 0
       THEN inst' = [inst EXCEPT ![i].draw_call.status = "raised"]
       ELSE LET d1 == IF empty THEN ReshuffleDiscard(e.deck) ELSE e.deck
            IN \E p \in PopChoices(d1) :
                  inst' = [inst EXCEPT
                      ![i].deck = p.deck,
                      ![i].draw_call =
                          [c EXCEPT !.drawn_cards = Append(@, p.card),
                                    !.left = @ - 1,
                                    !.status = IF c.left = 1 THEN "returned" ELSE "running",
                                    !.drawn_before_reshuffle =
                                        IF empty THEN Len(c.drawn_cards) ELSE @]]
    /\ UNCHANGED <<games, engines, tasks, caller>>

\* add_to_discard of a card that draw has returned
DiscardDrawn(i) ==
    /\ inst[i].pc = "deck"
    /\ inst[i].draw_call.status = "returned"
    /\ inst[i].draw_call.drawn_cards # <<>>
    /\ inst' = [inst EXCEPT
           ![i].deck = AddToDiscard(@, Head(inst[i].draw_call.drawn_cards)),
           ![i].draw_call.drawn_cards = Tail(@)]
    /\ UNCHANGED <<games, engines, tasks, caller>>

NextDeck ==
    \/ \E count \in 0 .. MaxDraw : DrawCall(1, count)
    \/ DrawStep(1)
    \/ DiscardDrawn(1)

SpecDeck == InitDeck /\ [][NextDeck]_vars

\* C28: draw(n) returns n cards whenever the two piles together hold at least n
\* cards and fails only when they hold fewer; when the draw pile has fewer than n
\* cards the discard pile is reshuffled into the draw pile before any card of the
\* call is drawn, and the discard pile is empty afterwards.
C28_DrawReshufflesFirst ==
    LET c == inst[1].draw_call
        n == c.count
        total == PileSize(c.before.cards) + PileSize(c.before.discard_pile)
    IN
    /\ c.status = "raised" => total < n
    /\ c.status = "returned" /\ Len(c.drawn_cards) = n =>
          /\ total >= n
          /\ PileSize(c.before.cards) < n =>
                /\ c.drawn_before_reshuffle = 0
                /\ PileSize(inst[1].deck.discard_pile) = 0
    /\ c.status = "running" /\ total >= n =>
          PileSize(inst[1].deck.cards) + PileSize(inst[1].deck.discard_pile) >= c.left

(***************************************************************************)
(* Role assignment: the policy in any slot, either branch of lines 101-122 *)
(* with any outcome of its random calls, and then one short game           *)
(***************************************************************************)
MaxRoleRounds == 1
MaxRoleSpeeches == 1

RoleMenu ==
    [max_rounds |-> MaxRoleRounds, max_speeches |-> MaxRoleSpeeches,
     trainable_slots |-> AgentIds, targets |-> {<<1, 1>>}, decks |-> {<<3, 0>>},
     forced |-> {TRUE, FALSE}, rotations |-> {<<4, 0, 1, 2, 3>>},
     master_slots |-> AgentIds, impostor_slots |-> AgentIds,
     nominees |-> {0}, talkers |-> {}, talk_slots |-> {<<1, 1>>},
     always_no |-> {}, no_voters |-> {},
     failing |-> {}, failing_tools |-> {},
     card_indices |-> {0}, opponent_card_indices |-> {0},
     policy_nominees |-> {0}, policy_targets |-> {},
     policy_card_indices |-> {0}, other_tools |-> {}, bad_outputs |-> {}]

NextRole == NextOf(RoleMenu, {"g1"}, {1})

SpecRole == Init /\ [][NextRole]_vars

\* the agents of engine e that carry role r
WithRole(e, r) == {a \in AgentIds : e.role[a] = r}

\* C29: in every game, whichever branch assigned the roles and whichever slot holds
\* the policy, the five agents carry exactly one MasterImpostor, one Impostor and
\* three Crewmate roles, and no step of the game changes an agent's role.
C29_RolesAreOneOneThreeAndFixed ==
    /\ [](\A i \in Instances :
             inst[i].pc # "none" =>
                /\ Cardinality(WithRole(inst[i], "MASTER_IMPOSTOR")) = 1
                /\ Cardinality(WithRole(inst[i], "IMPOSTOR")) = 1
                /\ Cardinality(WithRole(inst[i], "CREWMATE")) = 3)
    /\ [][\A i \in Instances : inst[i].pc # "none" => inst'[i].role = inst[i].role]_vars

\* a game whose policy sits in slot 2 as the Impostor has ended
C29_Witness ==
    /\ inst[1].pc = "done"
    /\ inst[1].policy_agent_id = 2
    /\ inst[1].role[2] = "IMPOSTOR"
    /\ inst[1].public_events # <<>>

(***************************************************************************)
(* The generator of module random.  deck.py and engine.py call             *)
(* random.shuffle, random.sample, random.choice and random.random of the   *)
(* module, one generator per process, seeded once by random.seed           *)
(* (train_modal.py).  The generator is modelled as a linear congruential   *)
(* one of full period: every draw steps the state and returns a value that *)
(* the new state determines.                                               *)
(***************************************************************************)
RandomModulus == 32

RandomNext(state) == (5 * state + 3) % RandomModulus

\* _randbelow(n) read from the state after the step
Randbelow(state, n) == (state * n) \div RandomModulus

\* random.random() < prob, for prob = num / 10
RandomBelowProb(state, num) == state * 10 < num * RandomModulus

Swap(x, i, j) == [x EXCEPT ![i] = x[j], ![j] = x[i]]

\* random.shuffle(x): for i in reversed(range(1, len(x))): j = randbelow(i + 1);
\* x[i], x[j] = x[j], x[i]
RECURSIVE ShuffleFrom(_, _, _)
ShuffleFrom(x, state, i) ==
    IF i < 2 THEN [list |-> x, state |-> state]
    ELSE LET s1 == RandomNext(state)
             j == 1 + Randbelow(s1, i)
         IN ShuffleFrom(Swap(x, i, j), s1, i - 1)

Shuffle(x, state) == ShuffleFrom(x, state, Len(x))

\* random.sample(population, k) for a short population: j = randbelow(n - i);
\* result[i] = pool[j]; pool[j] = pool[n - i - 1]
RECURSIVE SampleFrom(_, _, _, _)
SampleFrom(pool, n, k, state) ==
    IF k = 0 THEN [list |-> <<>>, state |-> state]
    ELSE LET s1 == RandomNext(state)
             j == 1 + Randbelow(s1, n)
             r == SampleFrom([pool EXCEPT ![j] = pool[n]], n - 1, k - 1, s1)
         IN [list |-> <<pool[j]>> \o r.list, state |-> r.state]

Sample(population, k, state) == SampleFrom(population, Len(population), k, state)

\* Deck._initialize_deck with the generator in the given state
InitializeDeck(total_sabotage, total_security, state) ==
    Shuffle([k \in 1 .. (total_sabotage + total_security) |->
                IF k <= total_sabotage THEN SABOTAGE ELSE SECURITY], state)

\* Engine.__init__, lines 98-122, with the generator in the given state:
\* trainable_impostor_prob is num / 10
AssignRoles(trainable_idx, num, state) ==
    LET s1 == RandomNext(state) IN
    IF trainable_idx # None /\ RandomBelowProb(s1, num)
    THEN LET s2 == RandomNext(s1)
             t == 1 + Randbelow(s2, 2)
             remaining_roles == Shuffle(RemoveAt(ROLES, t), s2)
         IN [list |-> [i \in 1 .. Len(ROLES) |->
                          IF i - 1 = trainable_idx THEN ROLES[t]
                          ELSE remaining_roles.list[IF i - 1 < trainable_idx THEN i ELSE i - 1]],
             state |-> remaining_roles.state]
    ELSE Sample(ROLES, Len(ROLES), IF trainable_idx # None THEN s1 ELSE state)

(***************************************************************************)
(* One game played in two runs of the training process, both seeded alike: *)
(* in each run the Deck and the Engine are made with the generator of the  *)
(* process, other games of the process may draw from it at any time, and   *)
(* the game plays one legislative session with the decisions it is given.  *)
(***************************************************************************)
MaxSeed == 3
MaxOtherDraws == 5
SeedSabotage == 2
SeedSecurity == 2

InitSeed ==
    /\ \E seed \in 0 .. MaxSeed :
          inst = [i \in Instances |->
                    [FreshInstance EXCEPT !.pc = "seeded", !.seed = seed,
                                          !.random_state = seed]]
    /\ games = [g \in GameIds |-> None]
    /\ engines = [g \in GameIds |-> None]
    /\ tasks = [g \in GameIds |-> None]
    /\ caller = [g \in GameIds |-> IdleCaller]

\* another game of the same process makes a draw before this game is made (Deck()
\* and Engine() of one create run without a suspension between them)
OtherGameDraws(i) ==
    /\ inst[i].pc = "seeded"
    /\ inst[i].other_draws < MaxOtherDraws
    /\ inst' = [inst EXCEPT ![i].random_state = RandomNext(@), ![i].other_draws = @ + 1]
    /\ UNCHANGED <<games, engines, tasks, caller>>

\* Deck(): rollout.py line 488
MakeDeck(i) ==
    /\ inst[i].pc = "seeded"
    /\ LET d == InitializeDeck(SeedSabotage, SeedSecurity, inst[i].random_state)
       IN inst' = [inst EXCEPT ![i] = [@ EXCEPT !.pc = "dealt", !.card_order = d.list,
                                                !.random_state = d.state]]
    /\ UNCHANGED <<games, engines, tasks, caller>>

\* Engine(...): the roles, then president_rotation = random.sample(agent_ids, 5)
MakeEngine(i) ==
    LET e == inst[i]
        trainable_idx == 4
        roles == AssignRoles(trainable_idx, 6, e.random_state)
        rotation == Sample(SortedSeq(AgentIds), Len(ROLES), roles.state)
    IN
    /\ e.pc = "dealt"
    /\ inst' = [inst EXCEPT ![i] =
          [NewEngine("g1", NewDeck(SeedSabotage, SeedSecurity), trainable_idx, 1, 1,
                     [a \in AgentIds |-> roles.list[a + 1]], rotation.list)
              EXCEPT !.pc = "made", !.seed = e.seed, !.random_state = rotation.state,
                     !.other_draws = e.other_draws, !.card_order = e.card_order]]
    /\ UNCHANGED <<games, engines, tasks, caller>>

\* run, lines 228-372, for a round in which nobody speaks and the vote passes:
\* the captain nominates, draw(3) pops the last three cards, the captain discards
\* one, the first mate plays one; the loop test then ends the game
PlayRound(i, nominee, discard_idx, play_idx) ==
    LET e == inst[i]
        n == Len(e.card_order)
        cards_raw == <<e.card_order[n], e.card_order[n - 1], e.card_order[n - 2]>>
        cards_with_ids == RemoveAt(cards_raw, discard_idx + 1)
        played == cards_with_ids[play_idx + 1]
        e1 == ResolveCard([e EXCEPT !.round = @ + 1,
                                    !.chancellor_id = nominee,
                                    !.current_chancellor_id = nominee,
                                    !.card_order = SubSeq(@, 1, n - 3),
                                    !.decisions = <<nominee, discard_idx, play_idx>>],
                          played)
    IN
    /\ e.pc = "made"
    /\ nominee \in EligibleChancellorIds(e)
    /\ IsGameOver(e1)
    /\ inst' = [inst EXCEPT ![i] = Finish(e1)]
    /\ UNCHANGED <<games, engines, tasks, caller>>

NextSeed ==
    \/ \E i \in Instances : OtherGameDraws(i)
    \/ \E i \in Instances : MakeDeck(i)
    \/ \E i \in Instances : MakeEngine(i)
    \/ \E i \in Instances, nominee \in {0, 1}, discard_idx \in {0, 1}, play_idx \in {0} :
          PlayRound(i, nominee, discard_idx, play_idx)

SpecSeed == InitSeed /\ [][NextSeed]_vars

\* the terminal message of engine e
TerminalOf(e) == e.out_log[Len(e.out_log)]

\* C30: two runs of a game with the same seed, the same role assignment and the same
\* decisions end with the same winners and the same winning_team, whatever draws
\* other games of the process make in between.
C30_OutcomeIsAFunctionOfItsInputs ==
    (/\ inst[1].pc = "done" /\ inst[2].pc = "done"
     /\ inst[1].exit_kind = "returned" /\ inst[2].exit_kind = "returned"
     /\ inst[1].seed = inst[2].seed
     /\ inst[1].role = inst[2].role
     /\ inst[1].decisions = inst[2].decisions)
    => /\ TerminalOf(inst[1]).winners = TerminalOf(inst[2]).winners
       /\ TerminalOf(inst[1]).winning_team = TerminalOf(inst[2]).winning_team

(***************************************************************************)
(* Claims about the legislative session (SpecWin: the policy is the first  *)
(* captain and discards any of the three cards, the first mates are        *)
(* opponents that play either card, the deck holds both kinds of card)     *)
(***************************************************************************)
\* the tool of the last decision of agent a for the request tool_type, read from a's
\* own history in engine n
LastToolOf(n, a, tool_type) ==
    LET h == n.msg_history[a]
        at == {k \in DOMAIN h : /\ h[k].history_type = "assistant-response"
                                 /\ h[k].tool_calls = <<tool_type>>}
        last == CHOOSE k \in at : \A j \in at : j <= k
    IN IF at = {} THEN NoTool ELSE h[last].hydrated_tool_calls[1]

\* C31: in a round whose vote passes the captain is shown exactly three cards drawn
\* from the deck; the card at the captain's index i in 0..2 goes to the discard pile
\* and the first mate is shown the other two in their order; the card at the first
\* mate's index j in 0..1 moves the track of its type by one and is published as the
\* played card with the first mate as actor, and the other card goes to the discard
\* pile: two cards to the discard pile and one to a track.
C31_LegislativeSession ==
    [][\A x \in Instances :
        LET e == inst[x]
            n == inst'[x]
            hand == e.cards_with_ids
            i == LastToolOf(n, President(e), "president-choose-card-to-discard").card_index
            j == LastToolOf(n, e.chancellor_id, "chancellor-play-policy").card_index
            added == (Len(e.public_events) + 1) .. Len(n.public_events)
        IN /\ (e.pc # "discard" /\ n.pc = "discard") =>
                 /\ Len(n.cards_with_ids) = 3
                 /\ PileSize(n.deck.cards) + PileSize(n.deck.discard_pile) + 3
                       = PileSize(e.deck.cards) + PileSize(e.deck.discard_pile)
           /\ (e.pc = "discard" /\ n.pc = "play" /\ i \in 0 .. 2) =>
                 /\ n.deck = AddToDiscard(e.deck, hand[i + 1])
                 /\ n.cards_with_ids = RemoveAt(hand, i + 1)
                 /\ n.awaiting = e.chancellor_id
                 /\ n.sabotage_progress = e.sabotage_progress
                 /\ n.security_progress = e.security_progress
           /\ (e.pc = "play" /\ n.pc # "play" /\ n.exit_kind # "exception" /\ j \in 0 .. 1) =>
                 /\ Len(hand) = 2
                 /\ n.deck = AddToDiscard(e.deck, hand[2 - j])
                 /\ n.sabotage_progress =
                       e.sabotage_progress + (IF hand[j + 1] = SABOTAGE THEN 1 ELSE 0)
                 /\ n.security_progress =
                       e.security_progress + (IF hand[j + 1] = SECURITY THEN 1 ELSE 0)
                 /\ \E k \in added :
                       /\ n.public_events[k].type = "ChancellorPlayPolicyEventPublic"
                       /\ n.public_events[k].agent_id = e.chancellor_id
                       /\ n.public_events[k].card = hand[j + 1]
      ]_vars

\* a session in which the captain discarded the third card and the first mate played
\* the second of the two it received, with cards of both kinds drawn
C31_Witness ==
    \E k \in DOMAIN inst[1].public_events :
        LET ev == inst[1].public_events[k]
            p == inst[1].private_events_by_agent[inst[1].policy_agent_id]
        IN /\ ev.type = "ChancellorPlayPolicyEventPublic"
           /\ ev.agent_id # None
           /\ LastToolOf(inst[1], ev.agent_id, "chancellor-play-policy").card_index = 1
           /\ LastToolOf(inst[1], inst[1].policy_agent_id,
                         "president-choose-card-to-discard").card_index = 2
           /\ \E q \in DOMAIN p : /\ p[q].type = "PresidentChooseCardToDiscardEventPrivate"
                                   /\ Range(p[q].cards) = {SABOTAGE, SECURITY}

(***************************************************************************)
(* Claims about the histories                                              *)
(***************************************************************************)
\* the events folded into the history of agent a, in the order of the history
FoldedEvents(e, a) ==
    LET items == SelectSeq(e.msg_history[a],
                           LAMBDA it : it.history_type = "user-input" /\ it.kind = "event")
    IN [k \in 1 .. Len(items) |-> items[k].event]

IsPrefix(s, t) == Len(s) <= Len(t) /\ SubSeq(t, 1, Len(s)) = s

\* C32: the events folded into an agent's history are, at every moment, the events
\* visible to the agent with a counter up to its cursor, each once, in counter order
\* (none twice, none skipped); when a decision is requested from an agent every event
\* visible to it has been folded and the cursor is the highest of their counters; the
\* cursor never decreases and the folded events only grow at the end, also for the
\* agents asked together in a gather.
C32_EventsFoldedOnceInOrder ==
    /\ [](\A i \in Instances : \A a \in AgentIds :
             LET e == inst[i] IN
             e.pc \notin {"none", "deck", "seeded", "dealt", "made"} =>
                /\ FoldedEvents(e, a) =
                      SelectSeq(SortByCounter(VisibleEvents(e, a)),
                                LAMBDA ev : ev.event_order_counter
                                               <= e.last_seen_event_counter[a])
                /\ (e.pc # "done" /\ (e.awaiting = a \/ a \in e.pending)) =>
                      \A k \in DOMAIN VisibleEvents(e, a) :
                         VisibleEvents(e, a)[k].event_order_counter
                            <= e.last_seen_event_counter[a])
    /\ [][\A i \in Instances : \A a \in AgentIds :
            inst[i].pc # "none" =>
               /\ inst'[i].last_seen_event_counter[a] >= inst[i].last_seen_event_counter[a]
               /\ IsPrefix(FoldedEvents(inst[i], a), FoldedEvents(inst'[i], a))]_vars

\* an agent that was first mate has been asked again after its session: its history
\* holds its private event with public events folded before it and after it
C32_Witness ==
    \E a \in AgentIds :
        LET f == FoldedEvents(inst[1], a)
        IN \E k \in DOMAIN f :
              /\ f[k].type = "ChancellorReceivePoliciesEventPrivate"
              /\ 1 < k /\ k < Len(f)
              /\ f[k - 1].type \notin PrivateEventTypes
              /\ f[Len(f)].type \notin PrivateEventTypes

\* C33: every agent's history only grows at its end, and the messages of each
\* ModelInput a caller receives for a game, the terminal one included, extend the
\* messages of the ModelInput it received before as a prefix.
C33_MessagesExtendAsPrefix ==
    [][/\ \A i \in Instances : \A a \in AgentIds :
            inst[i].pc # "none" => IsPrefix(inst[i].msg_history[a], inst'[i].msg_history[a])
       /\ \A g \in GameIds :
            (/\ caller[g].pc = "execute_wait"
             /\ caller'[g].pc # "execute_wait"
             /\ caller[g].model_input.kind = "ModelInput"
             /\ caller'[g].model_input.kind = "ModelInput")
            => IsPrefix(caller[g].model_input.messages, caller'[g].model_input.messages)
      ]_vars

\* C34: once the game-over test holds (a track has reached its target, or the
\* MasterImpostor is the current first mate with the sabotage track at the promotion
\* threshold), the orchestrator asks no agent for a decision and holds no drawn card
\* any more: it is never suspended on a request while the test holds.
C34_NothingAfterGameOver ==
    \A i \in Instances :
        LET e == inst[i]
        IN (e.pc \in SingleAwaits \cup {"disc_gather", "vote_gather"} /\ IsGameOver(e)) =>
              /\ e.awaiting = None
              /\ e.pending = {}
              /\ e.cards_with_ids = NoCards

(***************************************************************************)
(* Claims about the discourse schema, the length of a game and the deck    *)
(***************************************************************************)
\* C35: in every discourse phase the ask-agent-if-wants-to-speak schema presented to
\* an agent permits, for ask_directed_question_to_agent_id, the id of every other
\* agent of the game next to null.
C35_SpeakSchemaNamesEveryOtherAgent ==
    \A i \in Instances :
        LET e == inst[i]
            asked == (e.pending \cup {e.awaiting}) \cap AgentIds
        IN (e.pc # "none" /\ e.req.name = "ask-agent-if-wants-to-speak") =>
              \A a \in asked :
                  /\ None \in e.req.openai_schema.enum
                  /\ (AgentIds \ {a}) \subseteq e.req.openai_schema.enum

\* games in which every decision is answered inside its schema and every vote may
\* pass or fail: the trainable agent_4 decides each vote, the deck outlasts the game
MaxLongRounds == 7

LongMenu ==
    [max_rounds |-> MaxLongRounds, max_speeches |-> 0, trainable_slots |-> {4},
     targets |-> {<<2, 1>>}, decks |-> {<<3, 2>>}, forced |-> {FALSE},
     rotations |-> {<<4, 1, 2, 3, 0>>}, master_slots |-> {0},
     impostor_slots |-> {1}, nominees |-> {3}, talkers |-> {}, talk_slots |-> {},
     always_no |-> {1, 2}, no_voters |-> {4},
     failing |-> {}, failing_tools |-> {},
     card_indices |-> {0, 2}, opponent_card_indices |-> {0, 1},
     policy_nominees |-> {}, policy_targets |-> {}, policy_card_indices |-> {},
     other_tools |-> {}, bad_outputs |-> {}]

NextLong == NextOf(LongMenu, {"g1"}, {1})

SpecLong == Init /\ [][NextLong]_vars

\* the rounds begun since a card was last resolved onto a track
RECURSIVE NominationsSinceCard(_)
NominationsSinceCard(events) ==
    IF events = <<>> THEN 0
    ELSE LET last == events[Len(events)]
         IN IF last.type = "ChancellorPlayPolicyEventPublic" THEN 0
            ELSE NominationsSinceCard(SubSeq(events, 1, Len(events) - 1))
                   + (IF last.type = "PresidentPickChancellorEventPublic" THEN 1 ELSE 0)

\* C36: with every decision answered validly and no failing draw, a game begins at
\* most 3 * (security_target + sabotage_target - 1) rounds and then returns with its
\* terminal ModelInput: a card is resolved onto a track in any three consecutive
\* rounds, so the rounds begun never exceed three times the cards resolved plus three.
C36_GameEndsWithinThreeRoundsPerCard ==
    \A i \in Instances :
        LET e == inst[i]
            resolved == e.sabotage_progress + e.security_progress
        IN e.pc \notin {"none", "deck", "seeded", "dealt", "made"} =>
              /\ NominationsSinceCard(e.public_events) + (IF e.pc = "nominate" THEN 1 ELSE 0)
                    <= 3
              /\ e.round <= 3 * resolved + 3
              /\ e.round <= 3 * (e.security_track_target + e.sabotage_track_target - 1)
              /\ e.pc = "done" =>
                    /\ e.exit_kind = "returned"
                    /\ IsGameOver(e)
                    /\ e.out_log[Len(e.out_log)].terminal

\* a game that used every round the bound allows: it returned after its sixth round
C36_Witness ==
    \E i \in Instances :
        LET e == inst[i]
        IN /\ e.pc = "done" /\ e.exit_kind = "returned"
           /\ e.round = 3 * (e.security_track_target + e.sabotage_track_target - 1)
           /\ e.round < MaxLongRounds

(***************************************************************************)
(* The deck and the tracks of a game with the default configuration, round *)
(* by round: Deck() of rollout.py, line 488, and the defaults of create.   *)
(* The events and histories of a round, which no draw reads, stay as they  *)
(* are at the start.                                                       *)
(***************************************************************************)
\* Deck.__init__: total_fascist_cards = 11 * multiplier, total_liberal_cards = 6 * multiplier
TotalSabotageCards == 11
TotalSecurityCards == 6

\* create: sabotage_protocols_to_win = 4, security_protocols_to_win = 3
DefaultSabotageProtocolsToWin == 4
DefaultSecurityProtocolsToWin == 3

InitDefault ==
    /\ inst = [i \in Instances |->
                 IF i = 1
                 THEN [NewEngine("g1", NewDeck(TotalSabotageCards, TotalSecurityCards), 4,
                                 DefaultSabotageProtocolsToWin,
                                 DefaultSecurityProtocolsToWin,
                                 [a \in AgentIds |-> ROLES[a + 1]], <<4, 1, 2, 3, 0>>)
                          EXCEPT !.pc = "round"]
                 ELSE FreshInstance]
    /\ games = [g \in GameIds |-> None]
    /\ engines = [g \in GameIds |-> None]
    /\ tasks = [g \in GameIds |-> None]
    /\ caller = [g \in GameIds |-> IdleCaller]

\* run, line 228: the loop test holds and run goes on to the terminal state
GameEnds(i) ==
    /\ inst[i].pc = "round"
    /\ IsGameOver(inst[i])
    /\ inst' = [inst EXCEPT ![i] = [@ EXCEPT !.pc = "done", !.exit_kind = "returned"]]
    /\ UNCHANGED <<games, engines, tasks, caller>>

\* run, lines 228-274: a round whose vote fails; at the third failure in a row
\* _handle_failed_election draws one card and counts it on its track
VoteFails(i) ==
    LET e == inst[i]
        f == [e EXCEPT !.failed_election_tracker = @ + 1]
        h == IF f.failed_election_tracker >= 3
             THEN {IF r.ok
                   THEN [ResolveCard([f EXCEPT !.deck = r.deck], r.drawn[1])
                            EXCEPT !.failed_election_tracker = 0]
                   ELSE [f EXCEPT !.deck = r.deck, !.pc = "done",
                                  !.exit_kind = "exception"] : r \in Draw(f.deck, 1)}
             ELSE {f}
    IN
    /\ e.pc = "round"
    /\ ~IsGameOver(e)
    /\ \E x \in h :
          inst' = [inst EXCEPT ![i] = IF x.pc = "done" THEN x ELSE AdvancePresident(x)]
    /\ UNCHANGED <<games, engines, tasks, caller>>

\* run, lines 228-280: a round whose vote passes, up to the draw of three cards
VotePasses(i, chancellor_id) ==
    LET e == inst[i]
        s == [e EXCEPT !.failed_election_tracker = 0,
                       !.chancellor_id = chancellor_id,
                       !.current_chancellor_id = chancellor_id]
    IN
    /\ e.pc = "round"
    /\ ~IsGameOver(e)
    /\ chancellor_id \in EligibleChancellorIds(e)
    /\ \E r \in Draw(s.deck, 3) :
          inst' = [inst EXCEPT ![i] =
                     IF r.ok
                     THEN [s EXCEPT !.deck = r.deck, !.cards_with_ids = r.drawn,
                                    !.pc = "discard"]
                     ELSE [s EXCEPT !.deck = r.deck, !.pc = "done",
                                    !.exit_kind = "exception"]]
    /\ UNCHANGED <<games, engines, tasks, caller>>

\* run, lines 297-299: cards_with_ids.pop(idx), add_to_discard
CaptainDiscards(i, idx) ==
    LET e == inst[i]
        k == PyIndex(idx, Len(e.cards_with_ids))
    IN
    /\ e.pc = "discard"
    /\ PyIndexOk(idx, Len(e.cards_with_ids))
    /\ inst' = [inst EXCEPT ![i] =
                  [e EXCEPT !.deck = AddToDiscard(@, e.cards_with_ids[k]),
                            !.cards_with_ids = RemoveAt(e.cards_with_ids, k),
                            !.pc = "play"]]
    /\ UNCHANGED <<games, engines, tasks, caller>>

\* run, lines 331-370: the first mate's card goes on its track, the other one to the
\* discard pile, and the captain advances
FirstMatePlays(i, idx) ==
    LET e == inst[i]
        played == e.cards_with_ids[PyIndex(idx, Len(e.cards_with_ids))]
        discarded_by_chancellor_card ==
            e.cards_with_ids[PyIndex(1 - idx, Len(e.cards_with_ids))]
    IN
    /\ e.pc = "play"
    /\ PyIndexOk(idx, Len(e.cards_with_ids))
    /\ PyIndexOk(1 - idx, Len(e.cards_with_ids))
    /\ inst' = [inst EXCEPT ![i] =
                  AdvancePresident(
                      [ResolveCard([e EXCEPT !.deck = AddToDiscard(@, discarded_by_chancellor_card)],
                                   played)
                          EXCEPT !.cards_with_ids = NoCards, !.pc = "round"])]
    /\ UNCHANGED <<games, engines, tasks, caller>>

NextDefault ==
    \/ \E i \in {1} : GameEnds(i)
    \/ \E i \in {1} : VoteFails(i)
    \/ \E i \in {1}, chancellor_id \in AgentIds : VotePasses(i, chancellor_id)
    \/ \E i \in {1}, idx \in -3 .. 2 : CaptainDiscards(i, idx)
    \/ \E i \in {1}, idx \in -2 .. 1 : FirstMatePlays(i, idx)

SpecDefault == InitDefault /\ [][NextDefault]_vars

\* C37: with the default deck of 11 sabotage and 6 security cards and the default
\* targets 4 and 3, no draw of three or of one fails, and while the game is not over
\* the draw pile and the discard pile together hold at least three cards.
C37_DefaultDeckNeverRunsOut ==
    \A i \in Instances :
        LET e == inst[i]
        IN e.pc # "none" =>
              /\ e.exit_kind # "exception"
              /\ ~IsGameOver(e) =>
                    PileSize(e.deck.cards) + PileSize(e.deck.discard_pile) >= 3

\* the draw pile ran out in the middle of a draw of three and the discard pile was
\* shuffled in to complete it
C37_Witness ==
    \E i \in Instances :
        LET e == inst[i]
        IN /\ e.pc = "discard"
           /\ Len(e.cards_with_ids) = 3
           /\ PileSize(e.deck.discard_pile) = 0
           /\ e.sabotage_progress + e.security_progress = 5
           /\ e.initial_count = TotalSabotageCards + TotalSecurityCards

(***************************************************************************)
(* The registry under a create that fails and under a create that reuses   *)
(* the game_id of a running game                                           *)
(***************************************************************************)
MaxRegRounds == 1

RegMenu ==
    [max_rounds |-> MaxRegRounds, max_speeches |-> 0,
     trainable_slots |-> {4}, targets |-> {<<1, 1>>}, decks |-> {<<3, 0>>},
     forced |-> {FALSE}, rotations |-> {<<4, 0, 1, 2, 3>>}, master_slots |-> {0},
     impostor_slots |-> {1}, nominees |-> {0}, talkers |-> {}, talk_slots |-> {},
     always_no |-> {}, no_voters |-> {},
     failing |-> {0}, failing_tools |-> {"chancellor-play-policy"},
     card_indices |-> {0}, opponent_card_indices |-> {0},
     policy_nominees |-> {}, policy_targets |-> {},
     policy_card_indices |-> {}, other_tools |-> {}, bad_outputs |-> {}]

\* EngineAPI.create, lines 37-50, with a list ai_models that has not five entries: the
\* queues are registered under game_id (line 40), then Engine.__init__ raises
\* ValueError (engine.py 87-90), which leaves create; no engine is stored, no task is
\* spawned.  Instance i stands for the pair of queues.
CreateFails(g, i) ==
    /\ caller[g].pc = "idle"
    /\ games[g] = None
    /\ inst[i].pc = "none"
    /\ inst' = [inst EXCEPT ![i] = [FreshInstance EXCEPT !.pc = "queues", !.game_id = g]]
    /\ games' = [games EXCEPT ![g] = i]
    /\ caller' = [caller EXCEPT ![g] = [@ EXCEPT !.pc = "failed",
                                                 !.error = "CreateValueError"]]
    /\ UNCHANGED <<engines, tasks>>

\* EngineAPI.create, lines 37-58, called by another coroutine for a game_id that is
\* registered: the three entries are overwritten with those of the new game.  The
\* coroutine of the earlier call, if it is still suspended on the queues of the
\* replaced game, is not followed further: caller[g] is the coroutine of this call.
CreateAgain(m, g, i) ==
    /\ caller[g].pc \in {"create_wait", "ready", "execute_wait"}
    /\ games[g] # None
    /\ inst[i].pc = "none"
    /\ \E trainable_idx \in m.trainable_slots, targets \in m.targets, cards \in m.decks,
          forced \in m.forced, president_rotation \in m.rotations :
         \E shuffled_roles \in ShuffledRoles(trainable_idx, forced) :
            /\ IsPermutation(president_rotation)
            /\ \E a \in m.master_slots : shuffled_roles[a] = "MASTER_IMPOSTOR"
            /\ \E a \in m.impostor_slots : shuffled_roles[a] = "IMPOSTOR"
            /\ inst' = [inst EXCEPT ![i] =
                          NewEngine(g, NewDeck(cards[1], cards[2]), trainable_idx,
                                    targets[1], targets[2], shuffled_roles,
                                    president_rotation)]
    /\ games' = [games EXCEPT ![g] = i]
    /\ engines' = [engines EXCEPT ![g] = i]
    /\ tasks' = [tasks EXCEPT ![g] = i]
    /\ caller' = [caller EXCEPT ![g] = [@ EXCEPT !.pc = "create_wait", !.inst = i]]

\* EngineAPI.execute, lines 65-79, called outside the rollout loop for a game_id that
\* is registered: the ModelOutput is put on the registered input queue and the
\* caller waits on the registered output queue
ExecuteRegistered(g) ==
    /\ caller[g].pc \in {"idle", "finished", "failed"}
    /\ games[g] # None
    /\ inst' = [inst EXCEPT ![games[g]].input_queue = Append(@, caller[g].model_output)]
    /\ caller' = [caller EXCEPT ![g] = [@ EXCEPT !.pc = "execute_wait", !.inst = games[g]]]
    /\ UNCHANGED <<games, engines, tasks>>

NextReg ==
    \/ NextOf(RegMenu, {"g1"}, Instances)
    \/ \E i \in Instances : CreateFails("g1", i)
    \/ \E i \in Instances : CreateAgain(RegMenu, "g1", i)
    \/ ExecuteRegistered("g1")
    \/ ExecuteNotFound("g1")

SpecReg == Init /\ [][NextReg]_vars

\* C38: when create has failed while setting up the game, the registry is as it was
\* before the call: the game_id has no entry (game_exists is false) and an execute
\* for it does not wait on queues that no orchestrator serves.
C38_FailedCreateLeavesNoEntry ==
    \A g \in GameIds :
        /\ (caller[g].pc = "failed" /\ caller[g].error = "CreateValueError") =>
              /\ games[g] = None
              /\ engines[g] = None
              /\ tasks[g] = None
        /\ caller[g].pc = "execute_wait" => inst[caller[g].inst].pc # "queues"

\* C39: the entry under a game_id is removed only when the orchestrator that owns the
\* registered channels exits: a step that removes the entry of game_id is the exit of
\* the task whose queues were registered under it.
C39_EntryRemovedOnlyByItsOwner ==
    [][\A g \in GameIds :
          (games[g] # None /\ games'[g] = None) =>
              /\ inst[games[g]].pc # "done"
              /\ inst'[games[g]].pc = "done"
      ]_vars

(***************************************************************************)
(* Claims about the terminal messages                                      *)
(***************************************************************************)
\* the events among the messages of a ModelInput
EventsOfMessages(messages) ==
    {messages[k].content.event :
        k \in {j \in DOMAIN messages : /\ messages[j].role = "user"
                                       /\ messages[j].content.kind = "event"}}

\* C40: when a game has ended by the game-over test, the messages of the terminal
\* ModelInput its caller received contain every public event of the game and every
\* private event addressed to the trainable policy, those recorded after the
\* policy's last decision included.
C40_TerminalMessagesHoldEveryEvent ==
    \A g \in GameIds :
        (/\ caller[g].pc = "finished"
         /\ inst[caller[g].inst].exit_kind = "returned"
         /\ inst[caller[g].inst].policy_agent_id # None) =>
            LET e == inst[caller[g].inst]
                visible == VisibleEvents(e, e.policy_agent_id)
            IN \A k \in DOMAIN visible :
                  visible[k] \in EventsOfMessages(caller[g].model_input.messages)

=============================================================================
